---- MODULE Spec2Model ----
(***************************************************************************)
(* A model of OgreInterface/generate.py: the InterfaceGenerator (lattice   *)
(* match search, construction of the interfaces, removal of equivalent     *)
(* interfaces, ordering of the result) and the construction of a           *)
(* SurfaceGenerator.                                                       *)
(*                                                                         *)
(* Numbers.  Lattice vectors are integer triples.  The code's floats are   *)
(* kept exact: a norm or an area is held as its square (a "radicand"), a   *)
(* quotient x/y - 1 as the pair <<x, y>>, and a tolerance as the fraction  *)
(* <<n, d>>.  An angle is arccos rounded to 1e-4 rad.                      *)
(***************************************************************************)
EXTENDS Integers, Sequences, FiniteSets, TLC

VARIABLES
    substrate,          \* argument of InterfaceGenerator.__init__
    film,               \* argument of InterfaceGenerator.__init__
    params,             \* the keyword arguments of InterfaceGenerator.__init__
    self,               \* the attributes set on the InterfaceGenerator
    exc,                \* the exception the last call raised, or "none"
    pc,                 \* where the InterfaceGenerator is in its life
    zsl_calls,          \* lattice-match searches run so far
    match_list,         \* match_list of _generate_interface_props
    all_int,            \* generate_interfaces: every Interface built by the loop
    interfaces,         \* generate_interfaces: the candidates left by _find_exact_matches
    same_slab_indices,  \* generate_interfaces: the pairs _is_equal judged equal
    sorted_unique_interfaces, \* generate_interfaces: the value returned
    sg_call,            \* the call that constructs a SurfaceGenerator
    sg_self,            \* the attributes set on the SurfaceGenerator
    sg_exc,             \* the exception SurfaceGenerator(...) raised, or "none"
    sg_pc,              \* where the SurfaceGenerator is in its life
    gs_self,            \* _generate_slabs: the attributes of the SurfaceGenerator
    gs_heap,            \* _generate_slabs: the mutable objects, by reference
    gs_sg,              \* _generate_slabs: the SlabGenerator sg
    gs_slabs,           \* _generate_slabs: slabs, then the slab of each iteration
    gs_surfaces,        \* _generate_slabs: surfaces
    gs_pc,              \* _generate_slabs: the statement reached
    ism_interface,      \* the Interface given to an IonicSurfaceMatcher
    ism_self,           \* the attributes set on the IonicSurfaceMatcher
    ism_shifts,         \* _get_shifted_atoms: the argument shifts
    ism_atoms,          \* _get_shifted_atoms: atoms
    ism_local,          \* _get_shifted_atoms: shift, shifted_atoms
    ism_pc,             \* IonicSurfaceMatcher: the statement reached
    rig_self,           \* the attributes of the RandomInterfaceGenerator
    rig_slabs,          \* surface_generator.slabs of the RandomInterfaceGenerator
    rig_draw,           \* generate_interface: what the random module returned
    rig_out,            \* generate_interface: the value returned
    rig_pc              \* RandomInterfaceGenerator: calls of generate_interface made

ig_vars == <<substrate, film, params, self, exc, pc, zsl_calls, match_list,
             all_int, interfaces, same_slab_indices, sorted_unique_interfaces>>
sg_vars == <<sg_call, sg_self, sg_exc, sg_pc>>
gs_vars == <<gs_self, gs_heap, gs_sg, gs_slabs, gs_surfaces, gs_pc>>
ism_vars == <<ism_interface, ism_self, ism_shifts, ism_atoms, ism_local, ism_pc>>
rig_vars == <<rig_self, rig_slabs, rig_draw, rig_out, rig_pc>>
vars == <<ig_vars, sg_vars, gs_vars, ism_vars, rig_vars>>

(***************************************************************************)
(* Bounds of the model.                                                    *)
(***************************************************************************)
\* shortest and longest in-plane lattice vector component of a Surface
MinA == 3
MaxA == 4
\* largest x component of the second in-plane vector (0: rectangular cell)
MaxShear == 1
\* the inputs are those for which the search finds at most MaxMatches matches
MaxMatches == 3
\* distinct sets of fractional coordinates an Interface structure can have
MaxKeys == 3
\* distinct species lists the structures of one call can have
MaxSpecies == 2
\* most layers asked of a SurfaceGenerator
MaxLayers == 2

(***************************************************************************)
(* Vectors and exact arithmetic.                                           *)
(***************************************************************************)
Dot(a, b) == a[1] * b[1] + a[2] * b[2] + a[3] * b[3]

Cross(a, b) == << a[2] * b[3] - a[3] * b[2],
                  a[3] * b[1] - a[1] * b[3],
                  a[1] * b[2] - a[2] * b[1] >>

VAdd(a, b) == << a[1] + b[1], a[2] + b[2], a[3] + b[3] >>

VSub(a, b) == << a[1] - b[1], a[2] - b[2], a[3] - b[3] >>

VNeg(a) == << -a[1], -a[2], -a[3] >>

Abs(x) == IF x < 0 THEN -x ELSE x

RECURSIVE Gcd(_, _)
Gcd(a, b) == IF b = 0 THEN a ELSE Gcd(b, a % b)

\* |sqrt(p / q) - 1| <= tol[1] / tol[2], for p >= 0, q > 0 and tol in [0, 1]
RootRatioWithin(p, q, tol) ==
    /\ (tol[2] - tol[1]) * (tol[2] - tol[1]) * q <= tol[2] * tol[2] * p
    /\ tol[2] * tol[2] * p <= (tol[2] + tol[1]) * (tol[2] + tol[1]) * q

\* |p / q - 1| <= tol[1] / tol[2], for p >= 0, q > 0
RatioWithin(p, q, tol) ==
    /\ (tol[2] - tol[1]) * q <= tol[2] * p
    /\ tol[2] * p <= (tol[2] + tol[1]) * q

(***************************************************************************)
(* numpy.arccos, to 1e-4 rad.  ArccosTable maps cos^2 (a fraction in       *)
(* lowest terms) to the angle in [0, pi/2]; it lists every value the       *)
(* in-plane lattices of this model produce.                                *)
(***************************************************************************)
ArccosTable ==
    (<<0, 1>> :> 15708) @@ (<<1, 1025>> :> 15396) @@ (<<1, 730>> :> 15338) @@
    (<<1, 325>> :> 15153) @@ (<<1, 145>> :> 14877) @@ (<<1, 101>> :> 14711) @@
    (<<1, 82>> :> 14601) @@ (<<1, 65>> :> 14464) @@ (<<1, 37>> :> 14056) @@
    (<<25, 754>> :> 13877) @@ (<<1, 26>> :> 13734) @@ (<<4, 85>> :> 13521) @@
    (<<1, 17>> :> 13258) @@ (<<49, 625>> :> 12870) @@ (<<1, 10>> :> 12490) @@
    (<<4, 29>> :> 11903) @@ (<<121, 850>> :> 11839) @@ (<<1, 5>> :> 11071) @@
    (<<64, 289>> :> 10808) @@ (<<1, 2>> :> 7854) @@ (<<1, 1>> :> 0)

\* arccos(dot / sqrt(nsq)) in 1e-4 rad, nsq the product of the squared norms
Arccos(dot, nsq) ==
    LET g == Gcd(dot * dot, nsq)
        t == ArccosTable[<<(dot * dot) \div g, nsq \div g>>]
    IN  IF dot < 0 THEN 31416 - t ELSE t

(***************************************************************************)
(* What generate.py imports.  pymatgen's reduce_vectors and ZSLGenerator   *)
(* and OgreInterface.surfaces are not part of generate.py: they are        *)
(* written from the design document (4.1, 4.5, 3).                         *)
(***************************************************************************)
\* 4.1 Basis Reducer (Zur-McGill): no substitution shortens the result
RECURSIVE reduce_vectors(_, _)
reduce_vectors(a, b) ==
    IF Dot(a, b) < 0 THEN reduce_vectors(a, VNeg(b))
    ELSE IF Dot(a, a) > Dot(b, b) THEN reduce_vectors(b, a)
    ELSE IF Dot(b, b) > Dot(VAdd(b, a), VAdd(b, a)) THEN reduce_vectors(a, VAdd(b, a))
    ELSE IF Dot(b, b) > Dot(VSub(b, a), VSub(b, a)) THEN reduce_vectors(a, VSub(b, a))
    ELSE <<a, b>>

\* the rows of the 2x2 integer matrix T applied to the basis vecs
ApplyTransformation(T, vecs) ==
    [r \in 1..2 |->
        [k \in 1..3 |-> T[r][1] * vecs[1][k] + T[r][2] * vecs[2][k]]]

Det2(T) == T[1][1] * T[2][2] - T[1][2] * T[2][1]

AreaSq(vecs) == Dot(Cross(vecs[1], vecs[2]), Cross(vecs[1], vecs[2]))

\* 4.5: the supercell transformations of one lattice, of determinant 1 up to
\* max_area / primitive area
SupercellTransformations(vecs, max_area) ==
    LET dets == { n \in 1..max_area : n * n * AreaSq(vecs) <= max_area * max_area }
    IN  { T \in { <<<<i, j>>, <<0, m>>>> : i \in dets, j \in {0} \cup dets,
                                           m \in dets } :
            /\ T[1][2] < T[2][2]
            /\ Det2(T) \in dets }

MatchOrder(pair) ==
    ((((Det2(pair[1]) + Det2(pair[2])) * 64 + Det2(pair[1])) * 64
        + pair[1][1][1]) * 8 + pair[1][1][2]) * 512
        + pair[2][1][1] * 8 + pair[2][1][2]

\* the pairs of the finite set S as a sequence of increasing MatchOrder
RECURSIVE SeqByMatchOrder(_)
SeqByMatchOrder(S) ==
    IF S = {} THEN <<>>
    ELSE LET x == CHOOSE y \in S : \A z \in S : MatchOrder(y) <= MatchOrder(z)
         IN  <<x>> \o SeqByMatchOrder(S \ {x})

\* 4.5: a pair of reduced supercells is a match iff the area, both lengths
\* and the angle agree within the tolerances
IsMatch(f, s, p) ==
    /\ RootRatioWithin(AreaSq(f), AreaSq(s), p.area_tol)
    /\ RootRatioWithin(Dot(f[1], f[1]), Dot(s[1], s[1]), p.length_tol)
    /\ RootRatioWithin(Dot(f[2], f[2]), Dot(s[2], s[2]), p.length_tol)
    /\ RatioWithin(Arccos(Dot(f[1], f[2]), Dot(f[1], f[1]) * Dot(f[2], f[2])),
                   Arccos(Dot(s[1], s[2]), Dot(s[1], s[1]) * Dot(s[2], s[2])),
                   p.angle_tol)

\* the reduced supercell of one transformation
ReducedSupercell(T, vecs) ==
    reduce_vectors(ApplyTransformation(T, vecs)[1], ApplyTransformation(T, vecs)[2])

ZSLMatch(film_vectors, substrate_vectors, pair) ==
    [ film_sl_vectors |-> ReducedSupercell(pair[1], film_vectors),
      substrate_sl_vectors |-> ReducedSupercell(pair[2], substrate_vectors),
      film_vectors |-> film_vectors,
      substrate_vectors |-> substrate_vectors,
      film_transformation |-> pair[1],
      substrate_transformation |-> pair[2],
      match_area |-> AreaSq(ReducedSupercell(pair[2], substrate_vectors)) ]

\* 4.5 Epitaxial Lattice Matcher: every accepted match, small areas first
ZSLGenerator(film_vectors, substrate_vectors, p) ==
    LET film_sl == [T \in SupercellTransformations(film_vectors, p.max_area) |->
                       ReducedSupercell(T, film_vectors)]
        sub_sl == [T \in SupercellTransformations(substrate_vectors, p.max_area) |->
                      ReducedSupercell(T, substrate_vectors)]
        ok == { pair \in (DOMAIN film_sl) \X (DOMAIN sub_sl) :
                  IsMatch(film_sl[pair[1]], sub_sl[pair[2]], p) }
        ordered == SeqByMatchOrder(ok)
    IN  [i \in 1..Len(ordered) |->
            ZSLMatch(film_vectors, substrate_vectors, ordered[i])]

\* OgreInterface.surfaces.Surface: what InterfaceGenerator reads of it
Surface(vecs) ==
    [ type |-> "Surface", inplane_vectors |-> vecs, area |-> AreaSq(vecs),
      natoms |-> 1 ]

\* OgreInterface.surfaces.Interface: the arguments it was built from and the
\* interface structure, whose in-plane lattice is the matched supercell
\* (sub_strain_frac = 0: the film is strained onto the substrate)
Interface(args, frac_coords, species) ==
    [ args |-> args,
      interface |->
        [ lattice |-> args.sub_sl_vecs,
          natoms |-> args.substrate.natoms * Det2(args.substrate_transformation)
                       + args.film.natoms * Det2(args.film_transformation),
          frac_coords |-> frac_coords,
          species |-> species ] ]

(***************************************************************************)
(* Python values.                                                          *)
(***************************************************************************)
None == [is_none |-> TRUE, value |-> <<>>]

Some(v) == [is_none |-> FALSE, value |-> v]

NoAttributes == [a \in {} |-> 0]

\* the integers of the finite set S in increasing order
RECURSIVE SortedSeq(_)
SortedSeq(S) ==
    IF S = {} THEN <<>>
    ELSE LET x == CHOOSE y \in S : \A z \in S : y <= z
         IN  <<x>> \o SortedSeq(S \ {x})

Column(a, k) == [i \in 1..Len(a) |-> a[i][k]]

(***************************************************************************)
(* InterfaceGenerator                                                      *)
(***************************************************************************)
\* type(substrate) == Surface: the exact type, a subclass is refused
IsSurface_isinstance(obj) == obj.type \in {"Surface", "SurfaceSubclass"}

IsSurface(obj) == obj.type = "Surface"

\* the norms of the rows of every supercell, as radicands
_get_norm(a) == [i \in 1..Len(a) |-> [k \in 1..2 |-> Dot(a[i][k], a[i][k])]]

_get_angle(a, b) ==
    [i \in 1..Len(a) |->
        Arccos(Dot(a[i], b[i]), Dot(a[i], a[i]) * Dot(b[i], b[i]))]

\* the norms of the cross products, as radicands
_get_area(a, b) ==
    [i \in 1..Len(a) |-> Dot(Cross(a[i], b[i]), Cross(a[i], b[i]))]

\* strain[i][k] = <<x, y>> stands for sqrt(x) / sqrt(y) - 1
_get_strain_swapped(s) ==
    [i \in 1..Len(s["_film_norms"]) |->
        [k \in 1..2 |-> <<s["_sub_norms"][i][k], s["_film_norms"][i][k]>>]]

_get_strain(s) ==
    [i \in 1..Len(s["_film_norms"]) |->
        [k \in 1..2 |-> <<s["_film_norms"][i][k], s["_sub_norms"][i][k]>>]]

\* angle_diff[i] = <<x, y>> stands for x / y - 1
_get_angle_diff(s) ==
    LET sub_angles == _get_angle(Column(s.sub_sl_vecs, 1), Column(s.sub_sl_vecs, 2))
        film_angles == _get_angle(Column(s.film_sl_vecs, 1), Column(s.film_sl_vecs, 2))
    IN  [i \in 1..Len(sub_angles) |-> <<film_angles[i], sub_angles[i]>>]

\* area_diff[i] = <<x, y>> stands for sqrt(x) / sqrt(y) - 1
_get_area_diff(s) ==
    LET sub_areas == _get_area(Column(s.sub_sl_vecs, 1), Column(s.sub_sl_vecs, 2))
        film_areas == _get_area(Column(s.film_sl_vecs, 1), Column(s.film_sl_vecs, 2))
    IN  [i \in 1..Len(sub_areas) |-> <<film_areas[i], sub_areas[i]>>]

\* area_ratio[i] = <<p, q, x, y>> stands for |p / q - sqrt(x) / sqrt(y)|
_get_area_ratios(s) ==
    [i \in 1..Len(s.film_transformations) |->
        << s.substrate_transformations[i][1][1] * s.substrate_transformations[i][2][2],
           s.film_transformations[i][1][1] * s.film_transformations[i][2][2],
           s.film.area, s.substrate.area >>]

\* rotation_mat[i] = <<d, x, n>> stands for cos = d / sqrt(n), sin = sqrt(x / n)
_get_rotation_mat(s) ==
    LET sub_a == Column(s.sub_sl_vecs, 1)
        film_a == Column(s.film_sl_vecs, 1)
    IN  [i \in 1..Len(sub_a) |->
            << Dot(sub_a[i], film_a[i]),
               _get_area(sub_a, film_a)[i],
               s["_sub_norms"][i][1] * s["_film_norms"][i][1] >>]

\* np.eye(3, 3) with the 2x2 transformation in its upper left corner
Embed3x3(T) == << <<T[1][1], T[1][2], 0>>, <<T[2][1], T[2][2], 0>>, <<0, 0, 1>> >>

\* match_list: the matches of the search, run on the in-plane vectors of film
\* and substrate with the generator's tolerances and max_area
ZSLMatches(s) ==
    ZSLGenerator(s.film.inplane_vectors, s.substrate.inplane_vectors,
                 [ area_tol |-> s.area_tol, angle_tol |-> s.angle_tol,
                   length_tol |-> s.length_tol, max_area |-> s.max_area ])

_generate_interface_props_no_test(matches) ==
    Some([ film_sl_vecs |-> [i \in 1..Len(matches) |-> matches[i].film_sl_vectors],
           sub_sl_vecs |-> [i \in 1..Len(matches) |-> matches[i].substrate_sl_vectors],
           match_area |-> [i \in 1..Len(matches) |-> matches[i].match_area],
           film_vecs |-> [i \in 1..Len(matches) |-> matches[i].film_vectors],
           sub_vecs |-> [i \in 1..Len(matches) |-> matches[i].substrate_vectors],
           film_transformations |->
               [i \in 1..Len(matches) |-> Embed3x3(matches[i].film_transformation)],
           substrate_transformations |->
               [i \in 1..Len(matches) |-> Embed3x3(matches[i].substrate_transformation)] ])

_generate_interface_props(matches) ==
    IF Len(matches) = 0 THEN None
    ELSE Some([ film_sl_vecs |-> [i \in 1..Len(matches) |-> matches[i].film_sl_vectors],
                sub_sl_vecs |-> [i \in 1..Len(matches) |-> matches[i].substrate_sl_vectors],
                match_area |-> [i \in 1..Len(matches) |-> matches[i].match_area],
                film_vecs |-> [i \in 1..Len(matches) |-> matches[i].film_vectors],
                sub_vecs |-> [i \in 1..Len(matches) |-> matches[i].substrate_vectors],
                film_transformations |->
                    [i \in 1..Len(matches) |-> Embed3x3(matches[i].film_transformation)],
                substrate_transformations |->
                    [i \in 1..Len(matches) |-> Embed3x3(matches[i].substrate_transformation)] ])

\* the attributes the constructor sets from the matches
MatchDerivedAttributes ==
    { "film_sl_vecs", "sub_sl_vecs", "match_area", "film_vecs", "sub_vecs",
      "film_transformations", "substrate_transformations", "_film_norms",
      "_sub_norms", "strain", "angle_diff", "area_diff", "area_ratio",
      "substrate_areas", "rotation_mat" }

\* __init__, the attributes set from the arguments
SetArguments(sub, flm, p) ==
    ("substrate" :> sub) @@ ("film" :> flm) @@
    ("center" :> p.center) @@ ("area_tol" :> p.area_tol) @@
    ("angle_tol" :> p.angle_tol) @@ ("length_tol" :> p.length_tol) @@
    ("max_area" :> p.max_area) @@
    ("interfacial_distance" :> p.interfacial_distance) @@
    ("sub_strain_frac" :> p.sub_strain_frac) @@
    ("vacuum" :> p.vacuum)

\* __init__, the seven attributes unpacked from interface_output
UnpackInterfaceOutput(s, out) ==
    s @@ ("film_sl_vecs" :> out.film_sl_vecs) @@
         ("sub_sl_vecs" :> out.sub_sl_vecs) @@
         ("match_area" :> out.match_area) @@
         ("film_vecs" :> out.film_vecs) @@
         ("sub_vecs" :> out.sub_vecs) @@
         ("film_transformations" :> out.film_transformations) @@
         ("substrate_transformations" :> out.substrate_transformations)

SetNorms(s) ==
    s @@ ("_film_norms" :> _get_norm(s.film_sl_vecs)) @@
         ("_sub_norms" :> _get_norm(s.sub_sl_vecs))

SetMismatches(s) ==
    s @@ ("strain" :> _get_strain(s)) @@
         ("angle_diff" :> _get_angle_diff(s)) @@
         ("area_diff" :> _get_area_diff(s)) @@
         ("area_ratio" :> _get_area_ratios(s)) @@
         ("substrate_areas" :>
               _get_area(Column(s.sub_sl_vecs, 1), Column(s.sub_sl_vecs, 2)))

\* __init__ from self.interface_output = self._generate_interface_props() on
InitFromOutput(s, matches, out) ==
    IF out.is_none
    THEN [ self |-> s @@ ("interface_output" :> out), exc |-> "none",
           searches |-> 1, match_list |-> matches ]
    ELSE LET set == SetMismatches(SetNorms(
                        UnpackInterfaceOutput(s @@ ("interface_output" :> out),
                                              out.value)))
         IN  [ self |-> set @@ ("rotation_mat" :> _get_rotation_mat(set)),
               exc |-> "none", searches |-> 1, match_list |-> matches ]

\* InterfaceGenerator.__init__: the attributes set, the exception raised, the
\* searches run and the matches found
InterfaceGenerator__init__(sub, flm, p) ==
    IF ~IsSurface(sub)
    THEN [ self |-> NoAttributes, exc |-> "TypeError", searches |-> 0,
           match_list |-> <<>> ]
    ELSE IF ~IsSurface(flm)
    THEN [ self |-> ("substrate" :> sub), exc |-> "TypeError", searches |-> 0,
           match_list |-> <<>> ]
    ELSE LET s == SetArguments(sub, flm, p)
             matches == ZSLMatches(s)
         IN  InitFromOutput(s, matches, _generate_interface_props(matches))

\* generate_interfaces, the loop body: the Interface of match i.  frac_coords
\* and species are what the Interface computes for its structure.
BuildInterface_shifted(s, i, frac_coords, species) ==
    Interface([ substrate |-> s.substrate,
                film |-> s.film,
                film_transformation |->
                    s.film_transformations[(i % Len(s.film_transformations)) + 1],
                substrate_transformation |-> s.substrate_transformations[i],
                strain |-> s.strain[i],
                angle_diff |-> s.angle_diff[i],
                sub_strain_frac |-> s.sub_strain_frac,
                interfacial_distance |-> s.interfacial_distance,
                film_vecs |-> s.film_vecs[i],
                sub_vecs |-> s.sub_vecs[i],
                film_sl_vecs |-> s.film_sl_vecs[i],
                sub_sl_vecs |-> s.sub_sl_vecs[i],
                vacuum |-> s.vacuum,
                center |-> s.center ], frac_coords, species)

BuildInterface(s, i, frac_coords, species) ==
    Interface([ substrate |-> s.substrate,
                film |-> s.film,
                film_transformation |-> s.film_transformations[i],
                substrate_transformation |-> s.substrate_transformations[i],
                strain |-> s.strain[i],
                angle_diff |-> s.angle_diff[i],
                sub_strain_frac |-> s.sub_strain_frac,
                interfacial_distance |-> s.interfacial_distance,
                film_vecs |-> s.film_vecs[i],
                sub_vecs |-> s.sub_vecs[i],
                film_sl_vecs |-> s.film_sl_vecs[i],
                sub_sl_vecs |-> s.sub_sl_vecs[i],
                vacuum |-> s.vacuum,
                center |-> s.center ], frac_coords, species)

\* rows of booleans in lexicographic order, False before True (np.unique)
RowLess(r1, r2) ==
    \E k \in 1..Len(r1) :
        /\ \A j \in 1..(k - 1) : r1[j] = r2[j]
        /\ ~r1[k] /\ r2[k]

RECURSIVE SortedRows(_)
SortedRows(S) ==
    IF S = {} THEN <<>>
    ELSE LET x == CHOOSE y \in S : \A z \in S \ {y} : RowLess(y, z)
         IN  <<x>> \o SortedRows(S \ {x})

MinOf(S) == CHOOSE y \in S : \A z \in S : y <= z

\* _find_exact_matches: the positions kept among structures of one size.
\* The sorted species are stored (520-523) and not read again: equal_coords
\* (525-530) compares the coordinates alone.
_find_exact_matches(structures) ==
    LET n == Len(structures)
        equal_coords ==
            [i \in 1..n |-> [j \in 1..n |->
                structures[i].interface.frac_coords
                    = structures[j].interface.frac_coords]]
        unique_eq == SortedRows({equal_coords[i] : i \in 1..n})
        inds == [r \in 1..Len(unique_eq) |-> {j \in 1..n : unique_eq[r][j]}]
    IN  [r \in 1..Len(inds) |-> MinOf(inds[r])]

\* the structures of the sizes sizes[from..], those of one size reduced by
\* _find_exact_matches, in the order of the sizes
RECURSIVE ReducedBySize(_, _, _)
ReducedBySize(built, sizes, from) ==
    IF from > Len(sizes) THEN <<>>
    ELSE LET strucs == SelectSeq(built,
                         LAMBDA x : x.interface.natoms = sizes[from])
             inds == _find_exact_matches(strucs)
         IN  [k \in 1..Len(inds) |-> strucs[inds[k]]]
                \o ReducedBySize(built, sizes, from + 1)

PossibleAlikeReduced(built) ==
    ReducedBySize(built,
        SortedSeq({built[i].interface.natoms : i \in 1..Len(built)}), 1)

\* itertools.combinations(range(n), 2), in its order
Combinations2(n) ==
    LET pairs == {c \in (1..n) \X (1..n) : c[1] < c[2]}
        ord == SortedSeq({c[1] * (n + 1) + c[2] : c \in pairs})
    IN  [k \in 1..Len(ord) |-> <<ord[k] \div (n + 1), ord[k] % (n + 1)>>]

\* to_delete: np.min of every pair judged equal
ToDelete_both(same) == {same[k][1] : k \in 1..Len(same)} \cup {same[k][2] : k \in 1..Len(same)}

ToDelete(same) == {same[k][1] : k \in 1..Len(same)}



IndexPermutations(n) ==
    {q \in [1..n -> 1..n] : \A i, j \in 1..n : i # j => q[i] # q[j]}

\* np.argsort(areas): the orders argsort may return (it is not a stable sort)
Argsorts_unsorted(areas) == IndexPermutations(Len(areas))

Argsorts(areas) ==
    {q \in IndexPermutations(Len(areas)) :
        \A i, j \in 1..Len(areas) : i < j => areas[q[i]] <= areas[q[j]]}

(***************************************************************************)
(* SurfaceGenerator: its construction                                      *)
(***************************************************************************)




\* Python binds a call: n_positional arguments fill the first parameters, a
\* keyword must name a parameter not filled yet, and every required parameter
\* must be filled; otherwise the call raises TypeError
CallBinds(parameters, required, n_positional, keywords) ==
    /\ n_positional <= Len(parameters)
    /\ keywords \subseteq
          {parameters[k] : k \in (n_positional + 1)..Len(parameters)}
    /\ \A k \in 1..Len(parameters) :
          parameters[k] \in required => (k <= n_positional \/ parameters[k] \in keywords)

\* _get_bulk, its body: the types of what it returns, or the exception.
\* SpacegroupAnalyzer takes a Structure.
_get_bulk(atoms_or_struc_type) ==
    LET init_structure_type ==
            IF atoms_or_struc_type = "Atoms" THEN "Structure"
            ELSE IF atoms_or_struc_type = "Structure" THEN "Atoms"
            ELSE "TypeError"
    IN  IF init_structure_type = "TypeError"
        THEN [exc |-> "TypeError", value |-> <<>>]
        ELSE IF init_structure_type # "Structure"
        THEN [exc |-> "AttributeError", value |-> <<>>]
        ELSE [exc |-> "none", value |-> <<"Structure", "Atoms">>]

\* SurfaceGenerator.__init__ on the call c: the attributes set and the
\* exception raised
SurfaceGenerator__init__(c) ==
    \* def __init__(self, bulk, miller_index, layers, vacuum, generate_all=True,
    \*              filter_ionic_slabs=False), without self
    IF ~CallBinds(<<"bulk", "miller_index", "layers", "vacuum", "generate_all",
                    "filter_ionic_slabs">>,
                  {"bulk", "miller_index", "layers", "vacuum"},
                  c.n_positional, c.keywords)
    THEN [self |-> NoAttributes, exc |-> "TypeError", at |-> "__init__"]
    \* self._get_bulk(atoms_or_struc=bulk): self is the one positional argument
    \* def _get_bulk(atoms_or_struc) has the one parameter atoms_or_struc
    ELSE IF ~CallBinds(<<"atoms_or_struc">>, {"atoms_or_struc"}, 1, {"atoms_or_struc"})
    THEN [self |-> NoAttributes, exc |-> "TypeError", at |-> "_get_bulk"]
    ELSE
      LET bulk == _get_bulk(c.bulk_type)
      IN  IF bulk.exc # "none"
          THEN [self |-> NoAttributes, exc |-> bulk.exc, at |-> "_get_bulk"]
          ELSE
            LET s1 == ("bulk_structure" :> bulk.value[1]) @@
                      ("bulk_atoms" :> bulk.value[2]) @@
                      ("miller_index" :> c.miller_index) @@
                      ("layers" :> c.layers) @@ ("vacuum" :> c.vacuum) @@
                      ("generate_all" :> c.generate_all) @@
                      ("filter_ionic_slabs" :> FALSE)
            IN  [ self |-> s1,
                  \* the methods the class SurfaceGenerator defines
                  exc |-> IF "_generate_slabs_fast" \in
                               { "__init__", "from_file", "_get_bulk",
                                 "_get_ewald_energy", "_float_gcd",
                                 "_check_oriented_cell", "_get_reduced_basis",
                                 "_get_properly_oriented_slab", "_generate_slabs" }
                          THEN "none" ELSE "AttributeError",
                  at |-> "_generate_slabs_fast" ]

(***************************************************************************)
(* The inputs                                                              *)
(***************************************************************************)
\* in-plane lattices of a Surface: reduced, as _generate_slabs leaves them
InplaneLattices ==
    { l \in { << <<a, 0, 0>>, <<sh, b, 0>> >> :
                a \in MinA..MaxA, b \in MinA..MaxA, sh \in 0..MaxShear } :
        reduce_vectors(l[1], l[2]) = l }

\* what a caller may pass as substrate or film: a Surface, an instance of a
\* subclass of Surface, or a pymatgen Structure
Objects ==
    { Surface(l) : l \in InplaneLattices }
        \cup { [Surface(<< <<MinA, 0, 0>>, <<0, MinA, 0>> >>)
                    EXCEPT !.type = "SurfaceSubclass"] }
        \cup { [ type |-> "Structure", inplane_vectors |-> <<>>, area |-> 0,
                 natoms |-> 1 ] }

\* area_tol, angle_tol, length_tol: the default 0.01, and 0.25
Tolerances == { <<1, 100>>, <<1, 4>> }


Parameters ==
    [ area_tol : Tolerances, angle_tol : Tolerances, length_tol : Tolerances,
      \* max_area: below every primitive cell area, and above
      max_area : {8, 36}, interfacial_distance : {2}, sub_strain_frac : {0},
      vacuum : {40}, center : BOOLEAN ]

MillerIndices == { <<0, 0, 1>>, <<1, 1, 0>>, <<1, 1, 1>> }

\* the calls that construct a SurfaceGenerator: by the user with bulk given
\* by position or by keyword, by from_file, by
\* RandomSurfaceGenerator.generate_surface
SurfaceGeneratorCalls ==
    { c \in [ caller : {"user", "from_file", "generate_surface"},
              bulk_type : {"Structure", "Atoms", "str"},
              n_positional : {0, 1, 6},
              keywords : SUBSET {"bulk", "structure", "miller_index", "layers",
                                 "vacuum", "generate_all", "filter_ionic_slabs"},
              miller_index : MillerIndices,
              layers : 1..MaxLayers,
              vacuum : {40},
              generate_all : BOOLEAN ] :
        \/ /\ c.caller = "user"
           /\ \/ c.n_positional = 1 /\ c.keywords = {"miller_index", "layers", "vacuum"}
              \/ /\ c.n_positional = 0
                 /\ c.keywords = {"bulk", "miller_index", "layers", "vacuum"}
        \/ /\ c.caller = "from_file"
           /\ c.bulk_type = "Structure"
           /\ c.n_positional = 6 /\ c.keywords = {}
        \/ /\ c.caller = "generate_surface"
           /\ c.bulk_type = "Atoms"
           /\ c.miller_index = <<0, 0, 1>> /\ c.generate_all
           /\ c.n_positional = 0
           /\ c.keywords = {"structure", "miller_index", "layers", "vacuum",
                            "generate_all", "filter_ionic_slabs"} }

NoCall ==
    [ caller |-> "none", bulk_type |-> "none", n_positional |-> 0, keywords |-> {},
      miller_index |-> <<0, 0, 1>>, layers |-> 1, vacuum |-> 40,
      generate_all |-> TRUE ]

IG_Idle ==
    /\ substrate = Surface(<< <<MinA, 0, 0>>, <<0, MinA, 0>> >>)
    /\ film = Surface(<< <<MinA, 0, 0>>, <<0, MinA, 0>> >>)
    /\ params = CHOOSE p \in Parameters : TRUE
    /\ self = NoAttributes
    /\ exc = "none"
    /\ pc = "idle"
    /\ zsl_calls = 0
    /\ match_list = <<>>
    /\ all_int = <<>>
    /\ interfaces = <<>>
    /\ same_slab_indices = <<>>
    /\ sorted_unique_interfaces = <<>>

SG_Idle ==
    /\ sg_call = NoCall
    /\ sg_self = NoAttributes
    /\ sg_exc = "none"
    /\ sg_pc = "idle"

GS_Idle ==
    /\ gs_self = NoAttributes
    /\ gs_heap = <<>>
    /\ gs_sg = NoAttributes
    /\ gs_slabs = <<>>
    /\ gs_surfaces = <<>>
    /\ gs_pc = "idle"

ISM_Idle ==
    /\ ism_interface = NoAttributes
    /\ ism_self = NoAttributes
    /\ ism_shifts = <<>>
    /\ ism_atoms = <<>>
    /\ ism_local = NoAttributes
    /\ ism_pc = "idle"

RIG_Idle ==
    /\ rig_self = NoAttributes
    /\ rig_slabs = <<>>
    /\ rig_draw = NoAttributes
    /\ rig_out = NoAttributes
    /\ rig_pc = "idle"

(***************************************************************************)
(* InterfaceGenerator: the specification                                   *)
(***************************************************************************)
Init ==
    /\ substrate \in Objects
    /\ film \in Objects
    /\ params \in Parameters
    /\ (substrate.inplane_vectors # <<>> /\ film.inplane_vectors # <<>>)
          => Len(ZSLGenerator(film.inplane_vectors, substrate.inplane_vectors,
                              params)) <= MaxMatches
    /\ self = NoAttributes
    /\ exc = "none"
    /\ pc = "new"
    /\ zsl_calls = 0
    /\ match_list = <<>>
    /\ all_int = <<>>
    /\ interfaces = <<>>
    /\ same_slab_indices = <<>>
    /\ sorted_unique_interfaces = <<>>
    /\ SG_Idle
    /\ GS_Idle
    /\ ISM_Idle
    /\ RIG_Idle

Constructed(r) ==
    /\ self' = r.self
    /\ exc' = r.exc
    /\ zsl_calls' = zsl_calls + r.searches
    /\ match_list' = r.match_list
    /\ pc' = IF r.exc = "none" THEN "constructed" ELSE "raised"
    /\ UNCHANGED <<substrate, film, params, all_int, interfaces,
                   same_slab_indices, sorted_unique_interfaces, sg_vars,
                   gs_vars, ism_vars, rig_vars>>

\* InterfaceGenerator(substrate, film, ...) with a substrate that is refused
ConstructSubstrateRefused ==
    /\ pc = "new"
    /\ LET r == InterfaceGenerator__init__(substrate, film, params)
       IN  /\ r.exc = "TypeError" /\ "substrate" \notin DOMAIN r.self
           /\ Constructed(r)

\* InterfaceGenerator(substrate, film, ...) with a film that is refused
ConstructFilmRefused ==
    /\ pc = "new"
    /\ LET r == InterfaceGenerator__init__(substrate, film, params)
       IN  /\ r.exc = "TypeError" /\ "substrate" \in DOMAIN r.self
           /\ Constructed(r)

\* InterfaceGenerator(substrate, film, ...) when the search finds no match
ConstructNoMatch ==
    /\ pc = "new"
    /\ LET r == InterfaceGenerator__init__(substrate, film, params)
       IN  /\ r.exc = "none" /\ r.self.interface_output.is_none
           /\ Constructed(r)

\* InterfaceGenerator(substrate, film, ...) when the search finds matches
ConstructWithMatches ==
    /\ pc = "new"
    /\ LET r == InterfaceGenerator__init__(substrate, film, params)
       IN  /\ r.exc = "none" /\ ~r.self.interface_output.is_none
           /\ Constructed(r)

\* the fractional coordinates of n structures.  The code only compares them
\* with one another (np.isclose of each to all), so each is named by its class
\* of equal coordinates, the classes numbered in order of first appearance.
CoordinateClasses(n) ==
    { c \in [1..n -> 1..MaxKeys] :
        \A i \in 1..n : c[i] = 1 \/ \E j \in 1..(i - 1) : c[j] >= c[i] - 1 }

\* the species of n structures, each named by its class of equal species
\* lists, the classes numbered in order of first appearance
SpeciesClasses(n) ==
    { c \in [1..n -> 1..MaxSpecies] :
        \A i \in 1..n : c[i] = 1 \/ \E j \in 1..(i - 1) : c[j] >= c[i] - 1 }

\* generate_interfaces() on a generator that holds no match: the loop header
\* reads self.substrate_transformations, which was never set
GenerateInterfacesNoMatch ==
    /\ pc = "constructed"
    /\ "substrate_transformations" \notin DOMAIN self
    /\ exc' = "AttributeError"
    /\ pc' = "generate_raised"
    /\ UNCHANGED <<substrate, film, params, self, zsl_calls, match_list, all_int,
                   interfaces, same_slab_indices, sorted_unique_interfaces, sg_vars,
                   gs_vars, ism_vars, rig_vars>>

\* generate_interfaces() on a generator that holds matches.  The Interface
\* class gives each structure its coordinates, StructureMatcher (_is_equal)
\* judges each pair of candidates, np.argsort picks an order of equal areas.
GenerateInterfaces ==
    /\ pc = "constructed"
    /\ "substrate_transformations" \in DOMAIN self
    /\ \E coords \in CoordinateClasses(Len(self.substrate_transformations)),
          species \in SpeciesClasses(Len(self.substrate_transformations)) :
        \E built \in {[i \in 1..Len(self.substrate_transformations) |->
                          BuildInterface(self, i, coords[i], species[i])]} :
        \E cands \in {PossibleAlikeReduced(built)} :
        \E combos \in {Combinations2(Len(cands))} :
        \E is_equal \in SUBSET {combos[k] : k \in 1..Len(combos)} :
        \E same \in {SelectSeq(combos, LAMBDA c : c \in is_equal)} :
        \E unique_slab_indices \in {SortedSeq({i \in 1..Len(cands) : i \notin ToDelete(same)})} :
        \E unique_interfaces \in {[k \in 1..Len(unique_slab_indices) |->
                                      cands[unique_slab_indices[k]]]} :
        \E areas \in {[k \in 1..Len(unique_interfaces) |->
                           _get_area(<<unique_interfaces[k].interface.lattice[1]>>,
                                     <<unique_interfaces[k].interface.lattice[2]>>)[1]]} :
        \E sort \in Argsorts(areas) :
            /\ all_int' = built
            /\ interfaces' = cands
            /\ same_slab_indices' = same
            /\ sorted_unique_interfaces' =
                  [k \in 1..Len(sort) |-> unique_interfaces[sort[k]]]
    /\ exc' = "none"
    /\ pc' = "generated"
    /\ UNCHANGED <<substrate, film, params, self, zsl_calls, match_list, sg_vars,
                   gs_vars, ism_vars, rig_vars>>

Next ==
    \/ ConstructSubstrateRefused
    \/ ConstructFilmRefused
    \/ ConstructNoMatch
    \/ ConstructWithMatches
    \/ GenerateInterfacesNoMatch
    \/ GenerateInterfaces

Spec == Init /\ [][Next]_vars

(***************************************************************************)
(* SurfaceGenerator: the specification                                     *)
(***************************************************************************)
InitSG ==
    /\ IG_Idle
    /\ GS_Idle
    /\ ISM_Idle
    /\ RIG_Idle
    /\ sg_call \in SurfaceGeneratorCalls
    /\ sg_self = NoAttributes
    /\ sg_exc = "none"
    /\ sg_pc = "new"

SGConstructed(r) ==
    /\ sg_self' = r.self
    /\ sg_exc' = r.exc
    /\ sg_pc' = IF r.exc = "none" THEN "constructed" ELSE "raised"
    /\ UNCHANGED <<sg_call, ig_vars, gs_vars, ism_vars, rig_vars>>

\* SurfaceGenerator(...) when the call does not bind to __init__
SGConstructCallRefused ==
    /\ sg_pc = "new"
    /\ LET r == SurfaceGenerator__init__(sg_call)
       IN  r.at = "__init__" /\ SGConstructed(r)

\* SurfaceGenerator(...) when __init__ runs and its call of _get_bulk raises
SGConstructGetBulkRaises ==
    /\ sg_pc = "new"
    /\ LET r == SurfaceGenerator__init__(sg_call)
       IN  r.at = "_get_bulk" /\ r.exc # "none" /\ SGConstructed(r)

NextSG ==
    \/ SGConstructCallRefused
    \/ SGConstructGetBulkRaises

SpecSG == InitSG /\ [][NextSG]_vars

(***************************************************************************)
(* SurfaceGenerator._generate_slabs.  Mutable objects (structures, numpy   *)
(* arrays) live in gs_heap and are named by their position in it, so that  *)
(* a copy and the object copied are told apart.  Lengths are in 0.01       *)
(* Angstrom; a lattice matrix is in units of the first edge of the bulk     *)
(* cell, which is CellLength long.                                         *)
(***************************************************************************)
\* copy.deepcopy(x), Structure.copy(): a new object with the value of h[r]
deepcopy_alias(h, r) == [heap |-> h, ref |-> r]

deepcopy(h, r) == [heap |-> Append(h, h[r]), ref |-> Len(h) + 1]

\* -miller_index / np.min(np.abs(miller_index[miller_index != 0]))
NegatedMillerDirection(miller_index) ==
    LET m == MinOf({Abs(miller_index[k]) : k \in {j \in 1..3 : miller_index[j] # 0}})
    IN  [k \in 1..3 |-> (-miller_index[k]) \div m]


\* _get_reduced_basis(basis): works in place on the array basis (and returns it)
_get_reduced_basis(h, basis) ==
    \* each row is normalised, divided by its smallest non-zero magnitude, then
    \* by the gcd of its components
    [h EXCEPT ![basis] =
        [i \in 1..3 |->
            LET b == h[basis][i]
                g == Gcd(Gcd(Abs(b[1]), Abs(b[2])), Abs(b[3]))
            IN  [k \in 1..3 |-> b[k] \div g]]]

\* the first edge of the bulk cell, and the fractional grid of its sites
CellLength == 400
Grid == 40

\* bulk structures: sites as <<species, x, y, z>> on the fractional grid
RockSalt ==
    << <<"Na", 0, 0, 0>>, <<"Na", 20, 20, 0>>, <<"Na", 20, 0, 20>>, <<"Na", 0, 20, 20>>,
       <<"Cl", 20, 0, 0>>, <<"Cl", 0, 20, 0>>, <<"Cl", 0, 0, 20>>, <<"Cl", 20, 20, 20>> >>

\* lattice matrices of bulk cells: cubic, and tetragonal with c = 2a
Cubic == << <<1, 0, 0>>, <<0, 1, 0>>, <<0, 0, 1>> >>


BulkStructures ==
    { [name |-> "rock_salt", lattice |-> Cubic, sites |-> RockSalt],
      [name |-> "simple_cubic", lattice |-> Cubic,
       sites |-> << <<"Cu", 0, 0, 0>> >>],
      [name |-> "caesium_chloride", lattice |-> Cubic,
       sites |-> << <<"Cs", 0, 0, 0>>, <<"Cl", 20, 20, 20>> >>],
      [name |-> "buckled", lattice |-> Cubic,
       sites |-> << <<"Sn", 0, 0, 0>>, <<"Sn", 20, 20, 2>>,
                    <<"O", 0, 20, 20>>, <<"O", 20, 0, 20>> >>],
      [name |-> "simple_tetragonal", lattice |-> << <<1, 0, 0>>, <<0, 1, 0>>, <<0, 0, 2>> >>,
       sites |-> << <<"Pa", 0, 0, 0>> >>] }

\* 4.3 Termination Enumerator: the height of a site along the surface normal
Height(site, miller_index) ==
    (miller_index[1] * site[2] + miller_index[2] * site[3]
        + miller_index[3] * site[4]) % Grid

\* 4.3: two heights lie in one layer when they are within tol of each other
\* along the normal (the period along the normal of a cubic cell is
\* CellLength / |miller|; a cell of one site has one layer whatever its
\* lattice)
SameLayer(z1, z2, miller_index, tol) ==
    LET d == IF Abs(z1 - z2) <= Grid - Abs(z1 - z2)
             THEN Abs(z1 - z2) ELSE Grid - Abs(z1 - z2)
    IN  d * d * CellLength * CellLength
           <= tol * tol * Grid * Grid * Dot(miller_index, miller_index)

\* 4.3: one candidate shift per pair of adjacent layers, the midpoint between
\* them, sorted; the heights are taken in circular order
_calculate_possible_shifts(sites, miller_index, tol) ==
    LET zs == SortedSeq({Height(sites[k], miller_index) : k \in 1..Len(sites)})
        next(i) == IF i = Len(zs) THEN zs[1] + Grid ELSE zs[i + 1]
        gaps == {i \in 1..Len(zs) : ~SameLayer(zs[i], next(i) % Grid, miller_index, tol)
                                      \/ Len(zs) = 1}
    IN  SortedSeq({((zs[i] + next(i)) \div 2) % Grid : i \in gaps})

\* 4.4 Slab Assembler: the lattice of a slab of the oriented cell
SlabLattice(oriented, layers, flipped) ==
    LET n == IF flipped THEN -(layers + 10) ELSE layers + 10
    IN  << oriented[1], oriented[2], [k \in 1..3 |-> n * oriented[3][k]] >>

\* SlabGenerator(initial_structure, miller_index, ...): the scale factor found
\* and the oriented unit cell
SlabGenerator(slab_scale_factor, initial_structure) ==
    [ slab_scale_factor |-> slab_scale_factor,
      oriented_unit_cell |->
          [ lattice |-> [i \in 1..3 |-> [k \in 1..3 |->
                           slab_scale_factor[i][1] * initial_structure.lattice[1][k]
                         + slab_scale_factor[i][2] * initial_structure.lattice[2][k]
                         + slab_scale_factor[i][3] * initial_structure.lattice[3][k]]],
            sites |-> initial_structure.sites, from_copy |-> FALSE ] ]

\* new_a, new_b: reduce_vectors on the first two rows of the slab's lattice
new_a_new_b_unreduced(matrix) == <<matrix[1], matrix[2]>>

new_a_new_b(matrix) == reduce_vectors(matrix[1], matrix[2])

\* np.hstack([new_a, new_b, slab.lattice.matrix[-1]]) given to Lattice
reduced_matrix_of_basis(new_ab, matrix, basis) == <<new_ab[1], new_ab[2], basis[3]>>

reduced_matrix(new_ab, matrix, basis) == <<new_ab[1], new_ab[2], matrix[3]>>

\* Surface(slab, bulk, miller_index, layers, vacuum, uvw_basis)
NewSurface(slab, bulk, miller_index, layers, vacuum, uvw_basis) ==
    [ type |-> "Surface", slab |-> slab, bulk |-> bulk,
      miller_index |-> miller_index, layers |-> layers, vacuum |-> vacuum,
      uvw_basis |-> uvw_basis ]

\* largest magnitude of a component of an in-plane vector of the oriented cell
MaxCoord == 1

\* 4.2: the integer vectors of the plane of miller_index (cubic cell: the
\* lattice vectors perpendicular to the plane normal), without common divisor
InPlaneVectors(miller_index) ==
    { v \in [1..3 -> (-MaxCoord)..MaxCoord] :
        /\ Dot(v, miller_index) = 0
        /\ Dot(v, v) > 0
        /\ Gcd(Gcd(Abs(v[1]), Abs(v[2])), Abs(v[3])) = 1 }

\* 4.2: the transform of the oriented cell is right-handed
RightHanded(m) == Dot(Cross(m[1], m[2]), m[3]) > 0

\* Structure.make_supercell(scaling_matrix): in place, on the structure h[r]
make_supercell(h, r, scaling_matrix) ==
    [h EXCEPT ![r] =
        [ lattice |-> [i \in 1..3 |-> [k \in 1..3 |->
                        scaling_matrix[i][1] * h[r].lattice[1][k]
                      + scaling_matrix[i][2] * h[r].lattice[2][k]
                      + scaling_matrix[i][3] * h[r].lattice[3][k]]],
          sites |-> h[r].sites ]]

\* the branch of _check_oriented_cell that is taken when the third vector of
\* the scale factor is the negated Miller direction
OrientedCellRebuilt_unscaled(sg, single) ==
    [ slab_scale_factor |-> sg.slab_scale_factor,
      oriented_unit_cell |-> single ]

OrientedCellRebuilt(sg, single) ==
    [ slab_scale_factor |-> [i \in 1..3 |-> VNeg(sg.slab_scale_factor[i])],
      oriented_unit_cell |-> single ]

\* the shifts of the slabs that are built: every termination, or the first
SlabShifts_swapped(generate_all, sites, miller_index) ==
    IF ~generate_all
    THEN _calculate_possible_shifts(sites, miller_index, 25)
    ELSE <<_calculate_possible_shifts(sites, miller_index, 10)[1]>>

SlabShifts(generate_all, sites, miller_index) ==
    IF generate_all
    THEN _calculate_possible_shifts(sites, miller_index, 25)
    ELSE <<_calculate_possible_shifts(sites, miller_index, 10)[1]>>

\* the state in which _generate_slabs is entered on a generator whose
\* attributes were set
InitGS ==
    /\ IG_Idle
    /\ SG_Idle
    /\ ISM_Idle
    /\ RIG_Idle
    /\ \E bulk \in BulkStructures, miller_index \in MillerIndices,
          layers \in 1..MaxLayers, generate_all \in BOOLEAN :
          /\ gs_self = [ bulk_structure |-> 1, miller_index |-> miller_index,
                         layers |-> layers, vacuum |-> 40,
                         generate_all |-> generate_all ]
          /\ gs_heap = << [ lattice |-> bulk.lattice, sites |-> bulk.sites ] >>
    /\ gs_sg = NoAttributes
    /\ gs_slabs = <<>>
    /\ gs_surfaces = <<>>
    /\ gs_pc = "start"

\* lines 196-207: the SlabGenerator of the bulk structure
GSNewSlabGenerator ==
    /\ gs_pc = "start"
    /\ \E a \in InPlaneVectors(gs_self.miller_index),
          b \in InPlaneVectors(gs_self.miller_index), negated \in BOOLEAN :
          /\ RightHanded(<< a, b,
                 IF negated THEN NegatedMillerDirection(gs_self.miller_index)
                 ELSE VNeg(NegatedMillerDirection(gs_self.miller_index)) >>)
          /\ gs_sg' = SlabGenerator(
                 << a, b,
                    IF negated THEN NegatedMillerDirection(gs_self.miller_index)
                    ELSE VNeg(NegatedMillerDirection(gs_self.miller_index)) >>,
                 gs_heap[gs_self.bulk_structure])
    /\ gs_pc' = "constructed"
    /\ UNCHANGED <<gs_self, gs_heap, gs_slabs, gs_surfaces, ig_vars, sg_vars,
                   ism_vars, rig_vars>>

\* lines 140-151: _check_oriented_cell(slab_generator, miller_index) of the
\* generator gen, on the heap h; the SlabGenerator is changed in place
_check_oriented_cell(h, gen, slab_generator, miller_index) ==
    IF slab_generator.slab_scale_factor[3] = NegatedMillerDirection(miller_index)
    THEN [ heap |-> make_supercell(
                        deepcopy(h, gen.bulk_structure).heap,
                        deepcopy(h, gen.bulk_structure).ref,
                        [i \in 1..3 |-> VNeg(slab_generator.slab_scale_factor[i])]),
           sg |-> OrientedCellRebuilt(slab_generator,
                      make_supercell(
                          deepcopy(h, gen.bulk_structure).heap,
                          deepcopy(h, gen.bulk_structure).ref,
                          [i \in 1..3 |-> VNeg(slab_generator.slab_scale_factor[i])])
                          [deepcopy(h, gen.bulk_structure).ref]) ]
    ELSE [ heap |-> h, sg |-> slab_generator ]

\* lines 212-214, 140-149: the third vector is the negated Miller direction
GSCheckOrientedCellFlips ==
    /\ gs_pc = "constructed"
    /\ gs_sg.slab_scale_factor[3] = NegatedMillerDirection(gs_self.miller_index)
    /\ gs_heap' = _check_oriented_cell(gs_heap, gs_self, gs_sg,
                                       gs_self.miller_index).heap
    /\ gs_sg' = _check_oriented_cell(gs_heap, gs_self, gs_sg,
                                     gs_self.miller_index).sg
    /\ gs_pc' = "checked"
    /\ UNCHANGED <<gs_self, gs_slabs, gs_surfaces, ig_vars, sg_vars, ism_vars,
                   rig_vars>>

\* lines 212-214, 140-151: any other third vector, the generator is returned
\* as it is
GSCheckOrientedCellKeeps ==
    /\ gs_pc = "constructed"
    /\ gs_sg.slab_scale_factor[3] # NegatedMillerDirection(gs_self.miller_index)
    /\ gs_heap' = _check_oriented_cell(gs_heap, gs_self, gs_sg,
                                       gs_self.miller_index).heap
    /\ gs_sg' = _check_oriented_cell(gs_heap, gs_self, gs_sg,
                                     gs_self.miller_index).sg
    /\ gs_pc' = "checked"
    /\ UNCHANGED <<gs_self, gs_slabs, gs_surfaces, ig_vars, sg_vars, ism_vars,
                   rig_vars>>

\* the slabs of the shifts: each slab has a lattice matrix of its own, and
\* making it primitive may turn its third vector around
NewSlabs(h, shifts, flipped, sg, layers) ==
    [ heap |-> h \o [i \in 1..Len(shifts) |->
                       SlabLattice(sg.oriented_unit_cell.lattice, layers, flipped[i])],
      slabs |-> [i \in 1..Len(shifts) |->
                   [ lattice |-> Len(h) + i, shift |-> shifts[i],
                     rotated |-> FALSE ]] ]

\* lines 217-223
GSGetSlabs ==
    /\ gs_pc = "checked"
    /\ \E flipped \in [1..Len(SlabShifts(gs_self.generate_all,
                                 gs_sg.oriented_unit_cell.sites,
                                 gs_self.miller_index)) -> BOOLEAN] :
          /\ gs_heap' = NewSlabs(gs_heap,
                            SlabShifts(gs_self.generate_all,
                                gs_sg.oriented_unit_cell.sites, gs_self.miller_index),
                            flipped, gs_sg, gs_self.layers).heap
          /\ gs_slabs' = NewSlabs(gs_heap,
                            SlabShifts(gs_self.generate_all,
                                gs_sg.oriented_unit_cell.sites, gs_self.miller_index),
                            flipped, gs_sg, gs_self.layers).slabs
    /\ gs_pc' = "loop"
    /\ UNCHANGED <<gs_self, gs_sg, gs_surfaces, ig_vars, sg_vars, ism_vars,
                   rig_vars>>

\* lines 180-192: the slab is rotated in place when the reduced third vector
\* is the negated Miller direction (its lattice is not changed by that)
_get_properly_oriented_slab(basis, miller_index, slab) ==
    IF basis[3] = NegatedMillerDirection(miller_index)
    THEN [slab EXCEPT !.rotated = TRUE]
    ELSE slab

\* lines 242-263, given the heap h once reduced_struc's lattice is on it at
\* position r: the surface of the reduced structure
SurfaceOfReduced(h, r, slab, gen) ==
    [ heap |-> _get_reduced_basis(deepcopy(h, r).heap, deepcopy(h, r).ref),
      surface |-> NewSurface(
          [lattice |-> r, shift |-> slab.shift, rotated |-> slab.rotated],
          gen.bulk_structure, gen.miller_index, gen.layers, gen.vacuum,
          _get_reduced_basis(deepcopy(h, r).heap, deepcopy(h, r).ref)
              [deepcopy(h, r).ref]) ]

\* lines 232-263, given the heap h on which basis is the reduced copy of the
\* slab's lattice matrix
SurfaceOfSlab(h, basis, slab, gen) ==
    SurfaceOfReduced(
        Append(h, reduced_matrix(new_a_new_b(h[slab.lattice]),
                                 h[slab.lattice], h[basis])),
        Len(h) + 1,
        _get_properly_oriented_slab(h[basis], gen.miller_index, slab),
        gen)

\* lines 227-264: one turn of the loop, for the next slab
GSLoop ==
    /\ gs_pc = "loop"
    /\ Len(gs_surfaces) < Len(gs_slabs)
    /\ gs_heap' = SurfaceOfSlab(
           _get_reduced_basis(
               deepcopy(gs_heap, gs_slabs[Len(gs_surfaces) + 1].lattice).heap,
               deepcopy(gs_heap, gs_slabs[Len(gs_surfaces) + 1].lattice).ref),
           deepcopy(gs_heap, gs_slabs[Len(gs_surfaces) + 1].lattice).ref,
           gs_slabs[Len(gs_surfaces) + 1], gs_self).heap
    /\ gs_surfaces' = Append(gs_surfaces, SurfaceOfSlab(
           _get_reduced_basis(
               deepcopy(gs_heap, gs_slabs[Len(gs_surfaces) + 1].lattice).heap,
               deepcopy(gs_heap, gs_slabs[Len(gs_surfaces) + 1].lattice).ref),
           deepcopy(gs_heap, gs_slabs[Len(gs_surfaces) + 1].lattice).ref,
           gs_slabs[Len(gs_surfaces) + 1], gs_self).surface)
    /\ gs_slabs' = [gs_slabs EXCEPT ![Len(gs_surfaces) + 1] =
           _get_properly_oriented_slab(
               _get_reduced_basis(
                   deepcopy(gs_heap, gs_slabs[Len(gs_surfaces) + 1].lattice).heap,
                   deepcopy(gs_heap, gs_slabs[Len(gs_surfaces) + 1].lattice).ref)
                   [deepcopy(gs_heap, gs_slabs[Len(gs_surfaces) + 1].lattice).ref],
               gs_self.miller_index, gs_slabs[Len(gs_surfaces) + 1])]
    /\ UNCHANGED <<gs_self, gs_sg, gs_pc, ig_vars, sg_vars, ism_vars, rig_vars>>

\* line 266
GSReturn ==
    /\ gs_pc = "loop"
    /\ Len(gs_surfaces) = Len(gs_slabs)
    /\ gs_pc' = "returned"
    /\ UNCHANGED <<gs_self, gs_heap, gs_sg, gs_slabs, gs_surfaces, ig_vars,
                   sg_vars, ism_vars, rig_vars>>

NextGS ==
    \/ GSNewSlabGenerator
    \/ GSCheckOrientedCellFlips
    \/ GSCheckOrientedCellKeeps
    \/ GSGetSlabs
    \/ GSLoop
    \/ GSReturn

SpecGS == InitGS /\ [][NextGS]_vars

(***************************************************************************)
(* IonicSurfaceMatcher.  The Interface is that of OgreInterface.surfaces:  *)
(* a substrate and a film sublattice in one cell, each with the bulk       *)
(* structure it was cut from.  In-plane fractional coordinates are on a    *)
(* grid of ShiftGrid points per cell edge.                                 *)
(***************************************************************************)
ShiftGrid == 3

\* most shifts given to _get_shifted_atoms in one call
MaxShifts == 2

\* most calls of generate_interface, or of run_surface_matching, that are
\* told apart
MaxCalls == 2

\* a site of a structure: an element, without oxidation state
Site(element) == [element |-> element, oxi_state |-> None]


\* the interfaces an IonicSurfaceMatcher is made of: atoms are <<x, y, z>>
Interfaces ==
    { [ substrate |-> [bulk_structure |-> <<Site("Na"), Site("Cl")>>],
        film |-> [bulk_structure |-> <<Site("Mg"), Site("O")>>],
        interfacial_distance |-> 2,
        substrate_atoms |-> << <<0, 0, 0>>, <<1, 1, 1>> >>,
        film_atoms |-> << <<0, 0, 3>>, <<1, 1, 4>> >> ],
      [ substrate |-> [bulk_structure |-> <<Site("Mg"), Site("O")>>],
        film |-> [bulk_structure |-> <<Site("Na"), Site("Cl")>>],
        interfacial_distance |-> 2,
        substrate_atoms |-> << <<0, 0, 0>>, <<1, 1, 1>> >>,
        film_atoms |-> << <<2, 1, 3>>, <<0, 2, 4>> >> ],
      [ substrate |-> [bulk_structure |-> <<Site("Na"), Site("Cl")>>],
        film |-> [bulk_structure |-> <<Site("Na"), Site("Cl")>>],
        interfacial_distance |-> 3,
        substrate_atoms |-> << <<0, 0, 0>> >>,
        film_atoms |-> << <<1, 0, 3>> >> ] }

\* Interface.shift_film_inplane(x_shift, y_shift, fractional=True): the film
\* sublattice is displaced in the plane, and kept in the cell
shift_film_inplane(interface, x_shift, y_shift) ==
    [interface EXCEPT !.film_atoms =
        [k \in 1..Len(interface.film_atoms) |->
            << (interface.film_atoms[k][1] + x_shift) % ShiftGrid,
               (interface.film_atoms[k][2] + y_shift) % ShiftGrid,
               interface.film_atoms[k][3] >>]]

\* Interface.get_interface(orthogonal=True, return_atoms=True), with the
\* is_film array set on it: new Atoms, substrate first
get_interface(interface) ==
    [ positions |-> interface.substrate_atoms \o interface.film_atoms,
      is_film |-> [k \in 1..(Len(interface.substrate_atoms)
                              + Len(interface.film_atoms)) |->
                      k > Len(interface.substrate_atoms)] ]

\* lines 50-58
_get_charges(interface) ==
    [ e \in {interface.substrate.bulk_structure[k].element :
                k \in 1..Len(interface.substrate.bulk_structure)}
            \cup {interface.film.bulk_structure[k].element :
                    k \in 1..Len(interface.film.bulk_structure)} |->
        \* Composition.oxi_state_guesses()[0] for the bulk structures used
        IF e = "Na" THEN 1 ELSE IF e = "Cl" THEN -1
        ELSE IF e = "Mg" THEN 2 ELSE -2 ]

\* struc.add_oxidation_state_by_element(charge_dict), line 61: in place
add_oxidation_state_by_element(struc, charge_dict) ==
    [k \in 1..Len(struc) |->
        [struc[k] EXCEPT !.oxi_state = Some(charge_dict[struc[k].element])]]

\* lines 114-116: _get_neighborhood_info is given the two bulk structures
\* themselves; what it leaves of the interface
_get_r0s(interface, charge_dict) ==
    [interface EXCEPT
        !.substrate.bulk_structure =
            add_oxidation_state_by_element(@, charge_dict),
        !.film.bulk_structure =
            add_oxidation_state_by_element(@, charge_dict)]


\* struc.atomic_numbers
atomic_numbers(struc) ==
    \* the atomic numbers of the elements used
    LET Z(e) == IF e = "Na" THEN 11 ELSE IF e = "Cl" THEN 17
                ELSE IF e = "Mg" THEN 12 ELSE 8
    IN  {Z(struc[k].element) : k \in 1..Len(struc)}

\* Element(s).ionic_radii[c] of the ions Na+, Cl-, Mg2+ and O2-, by atomic
\* number, in 0.01 Angstrom
IonicRadius ==
    [ n \in {8, 11, 12, 17} |->
        IF n = 11 THEN 116 ELSE IF n = 17 THEN 167
        ELSE IF n = 12 THEN 86 ELSE 126 ]

\* combinations_with_replacement(Zs, 2), line 63
Combos(Zs) == {c \in Zs \X Zs : c[1] <= c[2]}

\* lines 67-83: what CrystalNN(cation_anion=True) can give for a structure,
\* the smallest distance found for each pair of species or None: it finds
\* the bonds between the cation and the anion (in 0.01 Angstrom), or none
CrystalNN(struc) ==
    { [c \in Combos(atomic_numbers(struc)) |->
          IF found /\ c[1] # c[2]
          THEN Some(IF c = <<11, 17>> THEN 282 ELSE 210)
          ELSE None] : found \in BOOLEAN }

\* lines 60-112: the neighbor_dict that _get_neighborhood_info returns, nn
\* being what CrystalNN found
_get_neighborhood_info(struc, nn) ==
    [ n \in Combos(atomic_numbers(struc)) |->
        IF nn[n] = None
        THEN IonicRadius[n[1]] + IonicRadius[n[2]]
        ELSE nn[n].value ]

\* lines 149-196: the eight assignments of one branch, key without rev_key
Assigned_key_only(table, key, d00, d11, d01, d10) ==
    [table EXCEPT ![<<0, 0>> \o key] = Some(d00),
                  ![<<1, 1>> \o key] = Some(d11),
                  ![<<0, 1>> \o key] = Some(d01),
                  ![<<1, 0>> \o key] = Some(d10)]

Assigned(table, key, d00, d11, d01, d10) ==
    [table EXCEPT ![<<0, 0>> \o key] = Some(d00),
                  ![<<1, 1>> \o key] = Some(d11),
                  ![<<0, 1>> \o key] = Some(d01),
                  ![<<1, 0>> \o key] = Some(d10),
                  ![<<0, 0, key[2], key[1]>>] = Some(d00),
                  ![<<1, 1, key[2], key[1]>>] = Some(d11),
                  ![<<0, 1, key[2], key[1]>>] = Some(d01),
                  ![<<1, 0, key[2], key[1]>>] = Some(d10)]

\* lines 146-197: the body of the loop over unique_keys
KeyAssigned(table, key, sub_dict, film_dict, ionic_sum_d) ==
    IF key \in DOMAIN sub_dict /\ key \in DOMAIN film_dict
    THEN Assigned(table, key, sub_dict[key], film_dict[key],
                  (sub_dict[key] + film_dict[key]) \div 2,
                  (sub_dict[key] + film_dict[key]) \div 2)
    ELSE IF key \in DOMAIN sub_dict
    THEN Assigned(table, key, sub_dict[key], ionic_sum_d,
                  sub_dict[key], sub_dict[key])
    ELSE IF key \in DOMAIN film_dict
    THEN Assigned(table, key, ionic_sum_d, film_dict[key],
                  film_dict[key], film_dict[key])
    ELSE Assigned(table, key, ionic_sum_d, ionic_sum_d, ionic_sum_d, ionic_sum_d)

\* lines 146-197: the loop over the keys from position k of unique_keys on
RECURSIVE KeysAssigned(_, _, _, _, _)
KeysAssigned(table, unique_keys, k, sub_dict, film_dict) ==
    IF k > Len(unique_keys) THEN table
    ELSE KeysAssigned(
             KeyAssigned(table, unique_keys[k], sub_dict, film_dict,
                 IonicRadius[unique_keys[k][1]] + IonicRadius[unique_keys[k][2]]),
             unique_keys, k + 1, sub_dict, film_dict)

\* lines 142-144: the keys of the two dictionaries, in the order of np.unique
UniqueKeys(sub_dict, film_dict) ==
    [ k \in 1..Cardinality(DOMAIN sub_dict \cup DOMAIN film_dict) |->
        << SortedSeq({c[1] * 1000 + c[2] :
                        c \in DOMAIN sub_dict \cup DOMAIN film_dict})[k] \div 1000,
           SortedSeq({c[1] * 1000 + c[2] :
                        c \in DOMAIN sub_dict \cup DOMAIN film_dict})[k] % 1000 >> ]

\* lines 114-207: the interface_neighbor_dict that _get_r0s returns, from
\* the neighbor_dict of the substrate and of the film
interface_neighbor_dict(sub_struc, film_struc, sub_dict, film_dict) ==
    LET numbers == atomic_numbers(sub_struc) \cup atomic_numbers(film_struc)
        keyed == KeysAssigned(
                     [ key \in { <<p[1], p[2], c[1], c[2]>> :
                                   p \in {0, 1} \X {0, 1},
                                   c \in numbers \X numbers } |-> None ],
                     UniqueKeys(sub_dict, film_dict), 1, sub_dict, film_dict)
    IN  [ key \in DOMAIN keyed |->
            IF keyed[key] = None
            THEN Some(IonicRadius[key[3]] + IonicRadius[key[4]])
            ELSE keyed[key] ]

\* lines 329-342: the z_PES_data an IonicSurfaceMatcher holds after a call of
\* run_surface_matching that computed, or would compute, z_energies
z_PES_data_recomputed(matcher, z_energies) == Some(z_energies)

z_PES_data(matcher, z_energies) ==
    IF matcher.z_PES_data = None THEN Some(z_energies) ELSE matcher.z_PES_data

\* lines 243-245: the shift that is applied after the atoms were read
NegativeShift_of_x(shift) == <<-shift[1], shift[2]>>

NegativeShift(shift) == <<-shift[1], -shift[2]>>


InitISM ==
    /\ IG_Idle
    /\ SG_Idle
    /\ GS_Idle
    /\ RIG_Idle
    /\ ism_interface \in Interfaces
    /\ ism_self = NoAttributes
    /\ ism_shifts = <<>>
    /\ ism_atoms = <<>>
    /\ ism_local = NoAttributes
    /\ ism_pc = "start"

\* lines 18-41: IonicSurfaceMatcher(interface)
ISMConstruct ==
    /\ ism_pc = "start"
    /\ \E sub_nn \in CrystalNN(ism_interface.substrate.bulk_structure),
          film_nn \in CrystalNN(ism_interface.film.bulk_structure) :
          ism_self' = [ charge_dict |-> _get_charges(ism_interface),
                        r0_dict |-> interface_neighbor_dict(
                            ism_interface.substrate.bulk_structure,
                            ism_interface.film.bulk_structure,
                            _get_neighborhood_info(
                                ism_interface.substrate.bulk_structure, sub_nn),
                            _get_neighborhood_info(
                                ism_interface.film.bulk_structure, film_nn)),
                        ns_dict |-> [e \in DOMAIN _get_charges(ism_interface) |-> 6],
                        k_max |-> 10,
                        d_interface |-> ism_interface.interfacial_distance,
                        film_part |-> ism_interface.film_atoms,
                        sub_part |-> ism_interface.film_atoms,
                        opt_xy_shift |-> <<0, 0>>,
                        z_PES_data |-> None ]
    /\ ism_interface' = _get_r0s(ism_interface, _get_charges(ism_interface))
    /\ ism_pc' = "constructed"
    /\ UNCHANGED <<ism_shifts, ism_atoms, ism_local, ig_vars, sg_vars, gs_vars,
                   rig_vars>>

\* lines 221-222: _get_shifted_atoms(shifts) is called; film_at_call records
\* the film atoms at the call
ISMGetShiftedAtoms ==
    /\ ism_pc \in {"constructed", "returned"}
    /\ ism_shifts' \in UNION { [1..n -> (0..(ShiftGrid - 1)) \X (0..(ShiftGrid - 1))] :
                                n \in 0..MaxShifts }
    /\ ism_atoms' = <<>>
    /\ ism_local' = [film_at_call |-> ism_interface.film_atoms]
    /\ ism_pc' = "for"
    /\ UNCHANGED <<ism_interface, ism_self, ig_vars, sg_vars, gs_vars, rig_vars>>

\* lines 224-228: the next shift is applied
ISMShiftInPlane ==
    /\ ism_pc = "for"
    /\ ism_shifts # <<>>
    /\ ism_interface' = shift_film_inplane(ism_interface,
                            Head(ism_shifts)[1], Head(ism_shifts)[2])
    /\ ism_local' = [ film_at_call |-> ism_local.film_at_call,
                      shift |-> Head(ism_shifts) ]
    /\ ism_shifts' = Tail(ism_shifts)
    /\ ism_pc' = "shifted"
    /\ UNCHANGED <<ism_self, ism_atoms, ig_vars, sg_vars, gs_vars, rig_vars>>

\* lines 231-241: the shifted atoms are read
ISMReadAtoms ==
    /\ ism_pc = "shifted"
    /\ ism_local' = [ film_at_call |-> ism_local.film_at_call,
                      shift |-> ism_local.shift,
                      shifted_atoms |-> get_interface(ism_interface) ]
    /\ ism_pc' = "read"
    /\ UNCHANGED <<ism_interface, ism_self, ism_shifts, ism_atoms, ig_vars,
                   sg_vars, gs_vars, rig_vars>>

\* lines 243-248: the negative shift is applied and the atoms are kept
ISMShiftBack ==
    /\ ism_pc = "read"
    /\ ism_interface' = shift_film_inplane(ism_interface,
                            NegativeShift(ism_local.shift)[1],
                            NegativeShift(ism_local.shift)[2])
    /\ ism_atoms' = Append(ism_atoms, ism_local.shifted_atoms)
    /\ ism_pc' = "for"
    /\ UNCHANGED <<ism_self, ism_shifts, ism_local, ig_vars, sg_vars, gs_vars,
                   rig_vars>>

\* line 250
ISMReturnAtoms ==
    /\ ism_pc = "for"
    /\ ism_shifts = <<>>
    /\ ism_pc' = "returned"
    /\ UNCHANGED <<ism_interface, ism_self, ism_shifts, ism_atoms, ism_local,
                   ig_vars, sg_vars, gs_vars, rig_vars>>

NextISM ==
    \/ ISMConstruct
    \/ ISMGetShiftedAtoms
    \/ ISMShiftInPlane
    \/ ISMReadAtoms
    \/ ISMShiftBack
    \/ ISMReturnAtoms

SpecISM == InitISM /\ [][NextISM]_vars

(***************************************************************************)
(* IonicSurfaceMatcher.run_surface_matching, called any number of times on *)
(* a constructed matcher.                                                  *)
(***************************************************************************)
\* lines 221-250: _get_shifted_atoms(shifts) as a whole, atoms being the list
\* built so far
RECURSIVE _get_shifted_atoms(_, _, _)
_get_shifted_atoms(interface, shifts, atoms) ==
    IF shifts = <<>> THEN [interface |-> interface, atoms |-> atoms]
    ELSE _get_shifted_atoms(
             shift_film_inplane(
                 shift_film_inplane(interface, Head(shifts)[1], Head(shifts)[2]),
                 NegativeShift(Head(shifts))[1], NegativeShift(Head(shifts))[2]),
             Tail(shifts),
             Append(atoms, get_interface(
                 shift_film_inplane(interface, Head(shifts)[1], Head(shifts)[2]))))

\* what EnergyEwald.forward and EnergyBorn.forward can return for the inputs
EnergyValues == {-3, -1}

\* lines 304-470: run_surface_matching(); z_energies are the energies that
\* _calculate_coulomb and _calculate_born give with z_shift=True, energies
\* those with z_shift=False.  ism_local holds the locals of the call and the
\* number of calls made so far.
ISMRunSurfaceMatching ==
    /\ ism_pc \in {"constructed", "matched"}
    /\ \E z_energies \in EnergyValues \X EnergyValues,
          energies \in EnergyValues \X EnergyValues :
       \* self.shifts of BaseSurfaceMatcher: the shifts of the grid, row by row
       \E shifts \in {[ k \in 1..(ShiftGrid * ShiftGrid) |->
                          <<(k - 1) % ShiftGrid, (k - 1) \div ShiftGrid>> ]} :
       \E got \in {_get_shifted_atoms(ism_interface, shifts, <<>>)},
          z_data \in {z_PES_data(ism_self, z_energies)} :
          /\ ism_interface' = got.interface
          /\ ism_atoms' = got.atoms
          /\ ism_self' = [ism_self EXCEPT !.z_PES_data = z_data]
          /\ ism_local' =
                [ calls |-> IF "calls" \notin DOMAIN ism_local THEN 1
                            ELSE IF ism_local.calls < MaxCalls
                                 THEN ism_local.calls + 1 ELSE MaxCalls,
                  z_computed |-> ism_self.z_PES_data = None,
                  z_interface_coulomb_energy |-> z_data.value[1],
                  z_interface_born_energy |-> z_data.value[2],
                  coulomb_adh_energy |-> z_data.value[1] - energies[1],
                  born_adh_energy |-> z_data.value[2] - energies[2] ]
    /\ ism_shifts' = <<>>
    /\ ism_pc' = "matched"
    /\ UNCHANGED <<ig_vars, sg_vars, gs_vars, rig_vars>>

NextRSM ==
    \/ ISMConstruct
    \/ ISMRunSurfaceMatching

SpecRSM == InitISM /\ [][NextRSM]_vars

(***************************************************************************)
(* RandomInterfaceGenerator.  A structure is a record of its cell (lengths *)
(* a and b in 0.001 Angstrom, c_len in Angstrom, the third vector along    *)
(* the normal) and its sites <<species, x, y, z>>: x and y are fractional  *)
(* numerators over xden and yden, z is the height in Angstrom.  The        *)
(* stacked interface has its z as numerators over zden.                    *)
(***************************************************************************)
\* a sequence held as an array: every element computed, once
AsArray(q) == q \o <<>>

\* Pauling electronegativity (times 100), the key Structure.sort() sorts by
Electronegativity ==
    [ e \in {"Na", "Mg", "Ga", "Cl", "O"} |->
        IF e = "Na" THEN 93 ELSE IF e = "Mg" THEN 131
        ELSE IF e = "Ga" THEN 181 ELSE IF e = "Cl" THEN 316 ELSE 344 ]

\* the place of site i after a stable sort by electronegativity
SortRank(sites, i) ==
    1 + Cardinality({ j \in 1..Len(sites) :
            \/ Electronegativity[sites[j][1]] < Electronegativity[sites[i][1]]
            \/ /\ Electronegativity[sites[j][1]] = Electronegativity[sites[i][1]]
               /\ j < i })

\* Structure.sort(): in place, on the structure h[r]
sort(h, r) ==
    [h EXCEPT ![r].sites =
        CHOOSE sorted \in
            { AsArray([p \in 1..Len(h[r].sites) |->
                  h[r].sites[CHOOSE i \in 1..Len(h[r].sites) : rank[i] = p]]) :
              rank \in { AsArray([i \in 1..Len(h[r].sites) |->
                                    SortRank(h[r].sites, i)]) } } : TRUE]

\* Structure.apply_strain([sx, sy, 0]): in place; strain in 1/1000
apply_strain(h, r, strain) ==
    [h EXCEPT ![r].a = @ + (@ * strain[1]) \div 1000,
              ![r].b = @ + (@ * strain[2]) \div 1000]

\* the sites of a supercell of n1 by n2 cells, the images of a site together
SupercellSites(struc, n1, n2) ==
    AsArray([ p \in 1..(Len(struc.sites) * n1 * n2) |->
        << struc.sites[1 + ((p - 1) \div (n1 * n2))][1],
           struc.sites[1 + ((p - 1) \div (n1 * n2))][2]
               + (((p - 1) % (n1 * n2)) \div n2) * struc.xden,
           struc.sites[1 + ((p - 1) \div (n1 * n2))][3]
               + ((p - 1) % n2) * struc.yden,
           struc.sites[1 + ((p - 1) \div (n1 * n2))][4] >> ])

\* slab.make_supercell(self.supercell), line 933: in place
supercell_of(h, r, supercell) ==
    [h EXCEPT ![r] =
        [ a |-> h[r].a * supercell[1], b |-> h[r].b * supercell[2],
          c_len |-> h[r].c_len,
          xden |-> h[r].xden * supercell[1], yden |-> h[r].yden * supercell[2],
          sites |-> SupercellSites(h[r], supercell[1], supercell[2]) ]]

\* lines 921-933 on the heap h of the slabs: the copy of the chosen slab,
\* strained and expanded
PreparedSlab(h, slab_ind, strain, supercell) ==
    [ heap |-> supercell_of(
                   apply_strain(deepcopy(h, slab_ind).heap,
                                deepcopy(h, slab_ind).ref, strain),
                   deepcopy(h, slab_ind).ref, supercell),
      ref |-> deepcopy(h, slab_ind).ref ]

MaxZ(sites) ==
    CHOOSE m \in {sites[k][4] : k \in 1..Len(sites)} :
        \A k \in 1..Len(sites) : sites[k][4] <= m

MinZ(sites) ==
    CHOOSE m \in {sites[k][4] : k \in 1..Len(sites)} :
        \A k \in 1..Len(sites) : sites[k][4] >= m

\* ase surface(random_structure, layers, (0, 0, 1), vacuum): the cell
\* repeated layers times along c, with vacuum on both sides
random_slab(random_structure, layers, vacuum) ==
    [ c_len |-> layers * random_structure.c_len + 2 * vacuum,
      sites |-> AsArray([ p \in 1..(layers * Len(random_structure.sites)) |->
          << random_structure.sites[1 + ((p - 1) % Len(random_structure.sites))][1],
             random_structure.sites[1 + ((p - 1) % Len(random_structure.sites))][2],
             random_structure.sites[1 + ((p - 1) % Len(random_structure.sites))][3],
             vacuum
               + ((p - 1) \div Len(random_structure.sites)) * random_structure.c_len
               + random_structure.sites[1 + ((p - 1) % Len(random_structure.sites))][4]
          >> ]) ]

\* lines 766-773, as a numerator over the c length of the random slab: the
\* fractional extent of each structure is multiplied by c_len, the length of
\* the slab's third vector
interface_c_len(slab, rand, vacuum, interfacial_distance) ==
    (MaxZ(slab.sites) - MinZ(slab.sites)) * rand.c_len
  + (MaxZ(rand.sites) - MinZ(rand.sites)) * slab.c_len
  + vacuum * rand.c_len
  + interfacial_distance * rand.c_len

\* the denominator of the z coordinates of the stacked interface
ZDen(slab, rand, vacuum, interfacial_distance) ==
    2 * interface_c_len(slab, rand, vacuum, interfacial_distance)

\* lines 780-781: z of the slab's sites in the new cell, lowest at 0
slab_frac_coords(slab, rand) ==
    AsArray([ k \in 1..Len(slab.sites) |->
        2 * (slab.sites[k][4] - MinZ(slab.sites)) * rand.c_len ])


\* lines 787-792: z of the random slab's sites in the new cell
random_frac_coords_half(slab, rand, interfacial_distance) ==
    AsArray([ k \in 1..Len(rand.sites) |->
        2 * (rand.sites[k][4] - MinZ(rand.sites)) * rand.c_len
      + 2 * (MaxZ(slab.sites) - MinZ(slab.sites)) * rand.c_len
      + interfacial_distance * rand.c_len ])

random_frac_coords(slab, rand, interfacial_distance) ==
    AsArray([ k \in 1..Len(rand.sites) |->
        2 * (rand.sites[k][4] - MinZ(rand.sites)) * rand.c_len
      + 2 * (MaxZ(slab.sites) - MinZ(slab.sites)) * rand.c_len
      + 2 * interfacial_distance * rand.c_len ])

\* lines 794-800: Structure(..., to_unit_cell=True) of
\* np.vstack([slab_frac_coords, random_frac_coords]), slab sites first
StackedSites(slab, rand, slab_z, random_z, zden) ==
    AsArray([ k \in 1..(Len(slab.sites) + Len(rand.sites)) |->
        IF k <= Len(slab.sites)
        THEN << slab.sites[k][1], slab.sites[k][2] % slab.xden,
                slab.sites[k][3] % slab.yden, slab_z[k] % zden >>
        ELSE << rand.sites[k - Len(slab.sites)][1],
                rand.sites[k - Len(slab.sites)][2] % slab.xden,
                rand.sites[k - Len(slab.sites)][3] % slab.yden,
                random_z[k - Len(slab.sites)] % zden >> ])

\* Structure.translate_sites(indices, vector): the sites are kept in the cell
translate_sites(sites, indices, vector, dens) ==
    AsArray([ k \in 1..Len(sites) |->
        IF k \in indices
        THEN << sites[k][1], (sites[k][2] + vector[1]) % dens[1],
                (sites[k][3] + vector[2]) % dens[2],
                (sites[k][4] + vector[3]) % dens[3] >>
        ELSE sites[k] ])

\* lines 801-803: the vector [0, 0, 0.5 - interface_height]
CentringVector(slab, rand, vacuum, interfacial_distance) ==
    << 0, 0, interface_c_len(slab, rand, vacuum, interfacial_distance)
               \* interface_height of lines 783-785
               - (2 * (MaxZ(slab.sites) - MinZ(slab.sites)) * rand.c_len
                  + interfacial_distance * rand.c_len) >>


\* the Structure interface of lines 794-807, with its sites
NewInterface(slab, rand, vacuum, interfacial_distance, sites) ==
    [ a |-> slab.a, b |-> slab.b,
      c_len_num |-> interface_c_len(slab, rand, vacuum, interfacial_distance),
      c_len_den |-> rand.c_len,
      xden |-> slab.xden, yden |-> slab.yden,
      zden |-> ZDen(slab, rand, vacuum, interfacial_distance),
      sites |-> sites ]

\* surface_generator.slabs[i].primitive_slab_pmg of the slabs
PrimitiveSlabs ==
    << [ a |-> 4000, b |-> 4000, c_len |-> 50, xden |-> ShiftGrid,
         yden |-> ShiftGrid,
         sites |-> << <<"Cl", 1, 1, 20>>, <<"Na", 0, 0, 22>>, <<"Na", 0, 0, 26>> >> ],
       [ a |-> 3000, b |-> 5000, c_len |-> 44, xden |-> ShiftGrid,
         yden |-> ShiftGrid,
         sites |-> << <<"Mg", 0, 0, 21>>, <<"O", 1, 2, 21>> >> ] >>

\* the structures _generate_random_structure makes: c_len is the cell's
RandomStructures ==
    { [ c_len |-> 3, sites |-> << <<"Ga", 0, 0, 0>> >> ],
      [ c_len |-> 4, sites |-> << <<"O", 1, 1, 2>>, <<"Ga", 0, 0, 0>> >> ] }

\* the attributes __init__ sets, lines 693-712
RandomInterfaceGenerators ==
    [ surface_generator : {"SurfaceGenerator"}, natoms : {24},
      layers : 1..MaxLayers, random_comp : {<<"Ga", "O">>},
      supercell : {<<2, 2>>}, strain_range : {<<-50, 50>>},
      interfacial_distance_range : {<<2, 3>>}, vacuum : {2, 40},
      center : BOOLEAN ]

InitRIG ==
    /\ IG_Idle
    /\ SG_Idle
    /\ GS_Idle
    /\ ISM_Idle
    /\ rig_self \in RandomInterfaceGenerators
    /\ rig_slabs \in {SubSeq(PrimitiveSlabs, 1, n) : n \in 1..Len(PrimitiveSlabs)}
    /\ rig_draw = NoAttributes
    /\ rig_out = NoAttributes
    /\ rig_pc = 0

\* random.uniform(self.strain_range[0], self.strain_range[1])
StrainDraws == {rig_self.strain_range[1], 0, rig_self.strain_range[2]}

\* lines 4-35: the names bound in the module that the methods of
\* RandomInterfaceGenerator read.  Group, pyxtal and pyxtal_Lattice are bound
\* by the imports of lines 678-681, as local names of __init__.
ModuleNames ==
    { "np", "random", "time", "deepcopy", "Structure", "Lattice",
      "SpacegroupAnalyzer", "neighbor_list", "make_supercell" }


\* lines 816-827
supercell_options ==
    << <<2, 2, 1>>, <<2, 2, 1>>, <<2, 1, 1>>, <<1, 2, 1>>,
       <<1, 1, 1>>, <<1, 1, 1>>, <<1, 1, 1>>, <<1, 1, 1>> >>

\* lines 833-838
prim_cell_natoms(gen, supercell) ==
    IF supercell[1] + supercell[2] + supercell[3] = 5
    THEN (gen.natoms \div gen.layers) \div 4
    ELSE IF supercell[1] + supercell[2] + supercell[3] = 4
         THEN (gen.natoms \div gen.layers) \div 2
         ELSE gen.natoms \div gen.layers

\* lines 815-918: _generate_random_structure(slab, factor, t_factor) with
\* random.randint giving ind at line 829.  The loop of lines 868-886 is
\* entered with struc_compat False and its first statement reads Group (869);
\* good_struc (888) and ase_struc (903) are not bound by then.
_generate_random_structure(gen, ind) ==
    [ supercell |-> supercell_options[ind],
      prim_cell_natoms |-> prim_cell_natoms(gen, supercell_options[ind]),
      struc_compat |-> FALSE,
      \* line 869 reads the name Group: a global of the module, or NameError
      raised |-> IF "Group" \in ModuleNames THEN "none" ELSE "NameError",
      loops |-> [ struc_compat |-> "raised", good_struc |-> "not_entered" ] ]

\* lines 920-948: generate_interface.  make_supercell is given the list of
\* two numbers self.supercell; where the library accepts it, the loop of
\* lines 933-940 is entered and its first statement calls
\* _generate_random_structure, whose NameError ends the loop and the call.
\* rig_draw.loops tells how each loop of the call ended.
RIGGenerateInterface ==
    /\ rig_out = NoAttributes
    /\ \E slab_ind \in 1..Len(rig_slabs), sx \in StrainDraws, sy \in StrainDraws,
          accepted \in BOOLEAN, ind \in 1..Len(supercell_options) :
       \E copied \in {deepcopy(rig_slabs, slab_ind)} :
       \E strained \in {apply_strain(copied.heap, copied.ref, <<sx, sy, 0>>)} :
       \E expanded \in {IF accepted
                        THEN supercell_of(strained, copied.ref, rig_self.supercell)
                        ELSE strained} :
       \E called \in {_generate_random_structure(rig_self, ind)} :
          /\ called.raised = "NameError"
          /\ rig_slabs' = SubSeq(expanded, 1, Len(rig_slabs))
          /\ rig_draw' =
                IF accepted
                THEN [ slab_ind |-> slab_ind, slab |-> expanded[copied.ref],
                       valid_struc |-> FALSE,
                       _generate_random_structure |-> called,
                       loops |-> [ valid_struc |-> "raised",
                                   struc_compat |-> called.loops.struc_compat,
                                   good_struc |-> called.loops.good_struc ] ]
                ELSE [ slab_ind |-> slab_ind, slab |-> expanded[copied.ref],
                       loops |-> [ valid_struc |-> "not_entered",
                                   struc_compat |-> "not_entered",
                                   good_struc |-> "not_entered" ] ]
          /\ rig_out' = [raised |-> IF accepted THEN called.raised ELSE "ValueError"]
    /\ rig_pc' = IF rig_pc < MaxCalls THEN rig_pc + 1 ELSE rig_pc
    /\ UNCHANGED <<rig_self, ig_vars, sg_vars, gs_vars, ism_vars>>

\* lines 732-813: _stack_interface, given the expanded copy of a slab and a
\* random structure; rig_draw holds its locals when it returns
RIGStackInterface ==
    /\ rig_out = NoAttributes
    /\ \E slab_ind \in 1..Len(rig_slabs), random_structure \in RandomStructures,
          interfacial_distance \in rig_self.interfacial_distance_range[1]
                                     ..rig_self.interfacial_distance_range[2],
          shift \in (0..(ShiftGrid - 1)) \X (0..(ShiftGrid - 1)) :
       \E prepared \in {PreparedSlab(rig_slabs, slab_ind, <<0, 0, 0>>,
                                     rig_self.supercell)},
          rand \in {random_slab(random_structure, rig_self.layers,
                                rig_self.vacuum)} :
       \E slab \in {prepared.heap[prepared.ref]} :
       \E slab_z \in {slab_frac_coords(slab, rand)},
          random_z \in {random_frac_coords(slab, rand, interfacial_distance)},
          zden \in {ZDen(slab, rand, rig_self.vacuum, interfacial_distance)} :
       \E stacked \in {StackedSites(slab, rand, slab_z, random_z, zden)} :
       \E centred \in {translate_sites(stacked, 1..Len(stacked),
                           CentringVector(slab, rand, rig_self.vacuum,
                                          interfacial_distance),
                           <<slab.xden, slab.yden, zden>>)} :
       \E shifted \in {translate_sites(centred,
                           (Len(slab.sites) + 1)..Len(centred),
                           \* lines 804-807: [uniform(0, 1), uniform(0, 1), 0.0]
                           << (shift[1] * slab.xden) \div ShiftGrid,
                              (shift[2] * slab.yden) \div ShiftGrid, 0 >>,
                           <<slab.xden, slab.yden, zden>>)} :
       \E interface \in {NewInterface(slab, rand, rig_self.vacuum,
                                      interfacial_distance, shifted)},
          sorted \in {sort(prepared.heap, prepared.ref)} :
          /\ rig_slabs' = SubSeq(sorted, 1, Len(rig_slabs))
          /\ rig_draw' = [ interfacial_distance |-> interfacial_distance,
                           shift |-> shift,
                           slab |-> slab,
                           random_slab |-> rand,
                           interface |-> interface,
                           centring |-> CentringVector(slab, rand, rig_self.vacuum,
                                                       interfacial_distance) ]
          /\ rig_out' = [ interface |-> sort(<<interface>>, 1)[1],
                          surf |-> sorted[prepared.ref],
                          rand |-> sort(<<rand>>, 1)[1] ]
    /\ rig_pc' = IF rig_pc < MaxCalls THEN rig_pc + 1 ELSE rig_pc
    /\ UNCHANGED <<rig_self, ig_vars, sg_vars, gs_vars, ism_vars>>

\* the caller has what the call returned or raised; the locals are gone
RIGResultTaken ==
    /\ rig_out # NoAttributes
    /\ rig_draw' = NoAttributes
    /\ rig_out' = NoAttributes
    /\ UNCHANGED <<rig_self, rig_slabs, rig_pc, ig_vars, sg_vars, gs_vars,
                   ism_vars>>

NextRIG ==
    \/ RIGGenerateInterface
    \/ RIGStackInterface
    \/ RIGResultTaken

SpecRIG == InitRIG /\ [][NextRIG]_vars

(***************************************************************************)
(* The claims about InterfaceGenerator (checked under Spec)                *)
(***************************************************************************)
ExactSurfaces == substrate.type = "Surface" /\ film.type = "Surface"

\* the matches of the search on the arguments, computed apart from the
\* constructor
SearchOnArguments ==
    ZSLGenerator(film.inplane_vectors, substrate.inplane_vectors, params)

\* C1: when the search yields no match, the constructor completes without
\* raising, _generate_interface_props returned None and interface_output
\* holds it (no match-derived attribute is set).
C1_NoMatchIsReported ==
    (pc \in {"constructed", "raised"} /\ ExactSurfaces
        /\ Len(SearchOnArguments) = 0)
    => /\ pc = "constructed"
       /\ exc = "none"
       /\ "interface_output" \in DOMAIN self
       /\ self.interface_output = None
       /\ DOMAIN self \cap MatchDerivedAttributes = {}

\* C1, its case: constructed with max_area below the area of a primitive cell
C1_Witness ==
    /\ pc = "constructed"
    /\ params.max_area * params.max_area < AreaSq(film.inplane_vectors)
    /\ match_list = <<>>
    /\ self.interface_output = None

\* C2 (as claimed): generate_interfaces on a generator that found no match
\* returns an empty list and does not raise.
C2_GenerateOnNoMatchReturnsEmpty ==
    (pc \in {"generated", "generate_raised"} /\ Len(match_list) = 0)
    => (exc = "none" /\ pc = "generated" /\ sorted_unique_interfaces = <<>>)

Returned == {sorted_unique_interfaces[k] : k \in 1..Len(sorted_unique_interfaces)}

\* the candidates that are the lower-indexed member of a pair judged equal
LowerOfEqualPair ==
    {i \in 1..Len(interfaces) :
        \E k \in 1..Len(same_slab_indices) : same_slab_indices[k][1] = i}

InSomeEqualPair ==
    {i \in 1..Len(interfaces) :
        \E k \in 1..Len(same_slab_indices) : i \in {same_slab_indices[k][1],
                                                    same_slab_indices[k][2]}}

\* C4 (as claimed): of every pair of candidates judged equivalent exactly one
\* member is returned, and every candidate equivalent to no other is returned.
C4_ExactlyOneOfEveryEqualPair ==
    pc = "generated"
    => /\ \A k \in 1..Len(same_slab_indices) :
             (interfaces[same_slab_indices[k][1]] \in Returned)
                # (interfaces[same_slab_indices[k][2]] \in Returned)
       /\ \A i \in 1..Len(interfaces) :
             i \notin InSomeEqualPair => interfaces[i] \in Returned

\* C4 (amended): the lower-indexed member of every pair judged equivalent is
\* not returned, so at most one member of a pair is; a candidate is returned
\* exactly when it is not the lower-indexed member of any such pair, so every
\* candidate equivalent to no other is returned; and of candidates that are
\* all judged equivalent to one another exactly one, the last, is returned.
C4_LowerOfEveryEqualPairDropped ==
    pc = "generated"
    => /\ \A i \in 1..Len(interfaces) :
             interfaces[i] \in Returned <=> i \notin LowerOfEqualPair
       /\ \A k \in 1..Len(same_slab_indices) :
             ~(interfaces[same_slab_indices[k][1]] \in Returned
                 /\ interfaces[same_slab_indices[k][2]] \in Returned)
       /\ (Len(interfaces) > 0
             /\ Len(same_slab_indices) = Len(Combinations2(Len(interfaces))))
          => Returned = {interfaces[Len(interfaces)]}

\* C4, its case: three candidates of one size, all judged equivalent to one
\* another
C4_Witness ==
    /\ pc = "generated"
    /\ Len(interfaces) = 3
    /\ \A i \in 1..3 : interfaces[i].interface.natoms = interfaces[1].interface.natoms
    /\ Len(same_slab_indices) = 3
    /\ Len(sorted_unique_interfaces) = 1

\* C5: the returned list is in non-decreasing order of the in-plane area of
\* the interface cell, its first element has the smallest area, and it is a
\* permutation of the retained unique interfaces.
C5_SortedByAreaPermutation ==
    pc = "generated"
    => /\ \A k, l \in 1..Len(sorted_unique_interfaces) :
             k < l => AreaSq(sorted_unique_interfaces[k].interface.lattice)
                        <= AreaSq(sorted_unique_interfaces[l].interface.lattice)
       /\ \A k \in 1..Len(sorted_unique_interfaces) :
             AreaSq(sorted_unique_interfaces[1].interface.lattice)
                <= AreaSq(sorted_unique_interfaces[k].interface.lattice)
       /\ Returned = {interfaces[i] : i \in (1..Len(interfaces)) \ LowerOfEqualPair}
       /\ Len(sorted_unique_interfaces)
             = Cardinality((1..Len(interfaces)) \ LowerOfEqualPair)
       /\ \A k, l \in 1..Len(sorted_unique_interfaces) :
             k # l => sorted_unique_interfaces[k] # sorted_unique_interfaces[l]

\* C5, its case: a candidate was dropped as a duplicate and the retained
\* interfaces returned differ in area
C5_Witness ==
    /\ pc = "generated"
    /\ Len(same_slab_indices) >= 1
    /\ Len(sorted_unique_interfaces) >= 2
    /\ AreaSq(sorted_unique_interfaces[1].interface.lattice)
          < AreaSq(sorted_unique_interfaces[Len(sorted_unique_interfaces)].interface.lattice)

\* |sqrt(r1[1] / r1[2]) - 1| < |sqrt(r2[1] / r2[2]) - 1|, exactly
AbsDeviationLess(r1, r2) ==
    LET g1 == Gcd(r1[1], r1[2])
        g2 == Gcd(r2[1], r2[2])
        p1 == r1[1] \div g1
        q1 == r1[2] \div g1
        p2 == r2[1] \div g2
        q2 == r2[2] \div g2
        d == 4 * q1 * q2 - p1 * q2 - p2 * q1
    IN  IF p1 >= q1 /\ p2 >= q2 THEN p1 * q2 < p2 * q1
        ELSE IF p1 < q1 /\ p2 < q2 THEN p2 * q1 < p1 * q2
        ELSE IF p1 >= q1 THEN d > 0 /\ 4 * p1 * p2 * q1 * q2 < d * d
        ELSE d < 0 \/ 4 * p1 * p2 * q1 * q2 > d * d

\* the strain of larger magnitude of the two axes
MaxStrain(x) ==
    IF AbsDeviationLess(x.args.strain[1], x.args.strain[2])
    THEN x.args.strain[2] ELSE x.args.strain[1]

\* x comes no later than y in the order by (area, max |strain|, angle strain)
InQualityOrder(x, y) ==
    \/ AreaSq(x.interface.lattice) < AreaSq(y.interface.lattice)
    \/ /\ AreaSq(x.interface.lattice) = AreaSq(y.interface.lattice)
       /\ \/ AbsDeviationLess(MaxStrain(x), MaxStrain(y))
          \/ /\ ~AbsDeviationLess(MaxStrain(y), MaxStrain(x))
             /\ x.args.angle_diff[1] * y.args.angle_diff[2]
                   <= y.args.angle_diff[1] * x.args.angle_diff[2]

\* C6 (as claimed): the returned list is sorted lexicographically by (area,
\* max |linear strain|, angle strain).
C6_SortedByAreaStrainAngle ==
    pc = "generated"
    => \A k, l \in 1..Len(sorted_unique_interfaces) :
          k < l => InQualityOrder(sorted_unique_interfaces[k],
                                  sorted_unique_interfaces[l])

\* C7: generate_interfaces builds exactly one Interface per match, the i-th
\* from the i-th film transformation, substrate transformation, strain, angle
\* difference and supercell vectors.
C7_OneInterfacePerMatch ==
    /\ pc = "generate_raised" => (all_int = <<>> /\ match_list = <<>>)
    /\ pc = "generated" =>
          /\ Len(all_int) = Len(match_list)
          /\ \A i \in 1..Len(all_int) :
                LET m == match_list[i]
                    a == all_int[i].args
                IN  /\ a.film_transformation = Embed3x3(m.film_transformation)
                    /\ a.substrate_transformation
                          = Embed3x3(m.substrate_transformation)
                    /\ a.film_sl_vecs = m.film_sl_vectors
                    /\ a.sub_sl_vecs = m.substrate_sl_vectors
                    /\ a.film_vecs = m.film_vectors
                    /\ a.sub_vecs = m.substrate_vectors
                    /\ \A k \in 1..2 :
                          a.strain[k] = << Dot(m.film_sl_vectors[k], m.film_sl_vectors[k]),
                                           Dot(m.substrate_sl_vectors[k],
                                               m.substrate_sl_vectors[k]) >>
                    /\ a.angle_diff =
                          << Arccos(Dot(m.film_sl_vectors[1], m.film_sl_vectors[2]),
                                    Dot(m.film_sl_vectors[1], m.film_sl_vectors[1])
                                      * Dot(m.film_sl_vectors[2], m.film_sl_vectors[2])),
                             Arccos(Dot(m.substrate_sl_vectors[1], m.substrate_sl_vectors[2]),
                                    Dot(m.substrate_sl_vectors[1], m.substrate_sl_vectors[1])
                                      * Dot(m.substrate_sl_vectors[2],
                                            m.substrate_sl_vectors[2])) >>

\* C7, its case: several matches with different film transformations
C7_Witness ==
    /\ pc = "generated"
    /\ Len(all_int) >= 2
    /\ all_int[1].args.film_transformation # all_int[2].args.film_transformation

\* C8: with a substrate or a film that is not a Surface the constructor
\* raises TypeError before any search is run, no match-derived attribute is
\* set, and nothing runs after the error (no retry).
C8_TypeErrorBeforeSearch ==
    (pc # "new" /\ ~ExactSurfaces)
    => /\ pc = "raised"
       /\ exc = "TypeError"
       /\ zsl_calls = 0
       /\ match_list = <<>>
       /\ DOMAIN self \cap (MatchDerivedAttributes \cup {"interface_output"}) = {}
       /\ ~ENABLED Next

\* C8, its case: the substrate is a Surface and the film is an instance of a
\* subclass of Surface
C8_Witness ==
    /\ pc = "raised"
    /\ substrate.type = "Surface"
    /\ film.type = "SurfaceSubclass"
    /\ DOMAIN self = {"substrate"}

(***************************************************************************)
(* The claims about SurfaceGenerator (checked under SpecSG)                *)
(***************************************************************************)
\* C9 (as claimed): a bulk that is a Structure or an Atoms is accepted, the
\* conventional structure and the matching Atoms are resolved; any other
\* type raises TypeError.
C9_BulkStructureOrAtomsAccepted ==
    sg_pc \in {"constructed", "raised"}
    => IF sg_call.bulk_type \in {"Structure", "Atoms"}
       THEN /\ sg_exc # "TypeError"
            /\ "bulk_structure" \in DOMAIN sg_self
            /\ "bulk_atoms" \in DOMAIN sg_self
            /\ sg_self.bulk_structure = "Structure"
            /\ sg_self.bulk_atoms = "Atoms"
       ELSE sg_exc = "TypeError"

\* C10 (as claimed): after a SurfaceGenerator is constructed its slabs
\* attribute holds the generated surfaces.
C10_SlabsHoldGeneratedSurfaces ==
    (sg_pc \in {"constructed", "raised"}
        /\ sg_call.bulk_type \in {"Structure", "Atoms"})
    => /\ sg_exc = "none"
       /\ "slabs" \in DOMAIN sg_self

(***************************************************************************)
(* The claims about SurfaceGenerator._generate_slabs (checked under        *)
(* SpecGS).  The lattice matrix of slab i as get_slabs built it is         *)
(* gs_heap[gs_slabs[i].lattice]; that of the surface made of it is         *)
(* gs_heap[gs_surfaces[i].slab.lattice].                                   *)
(***************************************************************************)
\* r = x * m[1] + y * m[2] with integers x and y: the pair <<x, y>> times
\* |m[1] x m[2]|^2, by Cramer's rule in the plane of m
Coefficients(r, m) ==
    << Dot(Cross(r, m[2]), Cross(m[1], m[2])),
       Dot(Cross(m[1], r), Cross(m[1], m[2])) >>

IntegerCombination(r, m) ==
    /\ Coefficients(r, m)[1] % AreaSq(m) = 0
    /\ Coefficients(r, m)[2] % AreaSq(m) = 0
    /\ \A k \in 1..3 :
          r[k] * AreaSq(m) = Coefficients(r, m)[1] * m[1][k]
                           + Coefficients(r, m)[2] * m[2][k]

\* the determinant of the transform from m to <<r1, r2>>, times AreaSq(m)^2
TransformDet(r1, r2, m) ==
    Coefficients(r1, m)[1] * Coefficients(r2, m)[2]
  - Coefficients(r1, m)[2] * Coefficients(r2, m)[1]

\* C11: the reduced in-plane pair of every surface is an integer combination
\* of the slab's pair with determinant +1 or -1, the in-plane area is the
\* slab's, and the third lattice vector is the slab's
C11_ReductionSpansSameLattice ==
    \A i \in 1..Len(gs_surfaces) :
        LET m == gs_heap[gs_slabs[i].lattice]
            r == gs_heap[gs_surfaces[i].slab.lattice]
        IN  /\ IntegerCombination(r[1], m)
            /\ IntegerCombination(r[2], m)
            /\ Abs(TransformDet(r[1], r[2], m)) = AreaSq(m) * AreaSq(m)
            /\ AreaSq(r) = AreaSq(m)
            /\ r[3] = m[3]

\* a surface whose reduced pair has a vector that is neither of the slab's
\* two, nor the negative of one
C11_Witness ==
    \E i \in 1..Len(gs_surfaces) :
        LET m == gs_heap[gs_slabs[i].lattice]
            r == gs_heap[gs_surfaces[i].slab.lattice]
        IN  r[2] \notin {m[1], m[2], VNeg(m[1]), VNeg(m[2])}

\* C12: reducing the reduced in-plane pair of a surface again gives the same
\* two vectors, up to sign and order
C12_ReductionIdempotent ==
    \A i \in 1..Len(gs_surfaces) :
        LET r == gs_heap[gs_surfaces[i].slab.lattice]
            q == reduce_vectors(r[1], r[2])
        IN  /\ q[1] \in {r[1], r[2], VNeg(r[1]), VNeg(r[2])}
            /\ q[2] \in {r[1], r[2], VNeg(r[1]), VNeg(r[2])}
            /\ q[1] \notin {q[2], VNeg(q[2])}

\* a surface whose pair was changed by the reduction, in more than the order
\* of the two vectors
C12_Witness ==
    \E i \in 1..Len(gs_surfaces) :
        LET m == gs_heap[gs_slabs[i].lattice]
            r == gs_heap[gs_surfaces[i].slab.lattice]
        IN  /\ r[1] \notin {m[1], m[2]}
            /\ gs_pc = "returned"

RockSaltAlong001 ==
    /\ gs_heap[gs_self.bulk_structure].sites = RockSalt
    /\ gs_self.miller_index = <<0, 0, 1>>

C15_BulkStructuresUnchanged ==
    [][ /\ ism_interface'.substrate.bulk_structure
            = ism_interface.substrate.bulk_structure
        /\ ism_interface'.film.bulk_structure
            = ism_interface.film.bulk_structure ]_vars

\* the film atoms at, displaced in the plane by shift
Displaced(atoms, shift) ==
    [k \in 1..Len(atoms) |->
        << (atoms[k][1] + shift[1]) % ShiftGrid,
           (atoms[k][2] + shift[2]) % ShiftGrid, atoms[k][3] >>]

\* during _get_shifted_atoms the film is where it was at the call,
\* except between a shift and its negative, when it is displaced by exactly
\* that one shift; it is back when the call returns, and the atoms read are
\* those of the film displaced by the one shift
C17_FilmBackInPlace ==
    /\ ism_pc \in {"for", "returned"} =>
          ism_interface.film_atoms = ism_local.film_at_call
    /\ ism_pc \in {"shifted", "read"} =>
          ism_interface.film_atoms
              = Displaced(ism_local.film_at_call, ism_local.shift)
    /\ ism_pc = "read" =>
          ism_local.shifted_atoms.positions
              = ism_interface.substrate_atoms
                  \o Displaced(ism_local.film_at_call, ism_local.shift)

\* one displacement of the film atoms in the plane, and nothing else
FilmDisplacedOnly ==
    \E shift \in (0..(ShiftGrid - 1)) \X (0..(ShiftGrid - 1)) :
        ism_interface' = [ism_interface EXCEPT
            !.film_atoms = Displaced(ism_interface.film_atoms, shift)]

\* C17: the film is back in place as stated above, and a step of
\* _get_shifted_atoms changes nothing of the interface but the in-plane
\* coordinates of the film atoms, all by one displacement
C17_OnlyFilmDisplacedAndBack ==
    /\ []C17_FilmBackInPlace
    /\ [][(ism_pc \in {"for", "shifted", "read"}) => FilmDisplacedOnly]_vars

\* a call has returned after two different displacements of the film
C17_Witness ==
    /\ ism_pc = "returned"
    /\ Len(ism_atoms) = 2
    /\ ism_atoms[1].positions # ism_atoms[2].positions
    /\ ism_atoms[2].positions
           # ism_interface.substrate_atoms \o ism_interface.film_atoms
    /\ ism_atoms[1].positions
           # ism_interface.substrate_atoms \o ism_interface.film_atoms

(***************************************************************************)
(* The claims about RandomInterfaceGenerator (checked under SpecRIG).      *)
(* When _stack_interface has returned, rig_draw holds its locals: the slab *)
(* and the random slab as they were stacked, and the interface before it   *)
(* is sorted, whose first Len(rig_draw.slab.sites) sites are the slab's.   *)
(***************************************************************************)
\* C16: no call of generate_interface or of _stack_interface changes an
\* attribute of the generator or a slab of surface_generator.slabs
C16_NoStateRetained ==
    [][rig_self' = rig_self /\ rig_slabs' = rig_slabs]_vars

\* generate_interface has been called MaxCalls times, the last time on a
\* copy that it strained
C16_Witness ==
    /\ rig_pc = MaxCalls
    /\ "raised" \in DOMAIN rig_out
    /\ rig_draw.slab.a # rig_slabs[rig_draw.slab_ind].a

Stacked == "interface" \in DOMAIN rig_out

NSlab == Len(rig_draw.slab.sites)

SubstrateZ == {rig_draw.interface.sites[k][4] : k \in 1..NSlab}

FilmZ ==
    {rig_draw.interface.sites[k][4] :
        k \in (NSlab + 1)..Len(rig_draw.interface.sites)}

MaxOfSet(S) == CHOOSE y \in S : \A z \in S : z <= y

\* interfacial_distance in the units of the interface's z numerators
DistanceInZ == 2 * rig_draw.interfacial_distance * rig_draw.random_slab.c_len

\* interfacial_distance was drawn within interfacial_distance_range, and the
\* in-plane shift moved the film sites only, and none along c
DrawnAndShifted ==
    /\ rig_draw.interfacial_distance >= rig_self.interfacial_distance_range[1]
    /\ rig_draw.interfacial_distance <= rig_self.interfacial_distance_range[2]
    /\ \A k \in 1..NSlab :
          /\ rig_draw.interface.sites[k][2] = rig_draw.slab.sites[k][2]
          /\ rig_draw.interface.sites[k][3] = rig_draw.slab.sites[k][3]
    /\ \A j \in 1..Len(rig_draw.random_slab.sites) :
          /\ rig_draw.interface.sites[NSlab + j][2]
                = (rig_draw.random_slab.sites[j][2]
                     + (rig_draw.shift[1] * rig_draw.interface.xden) \div ShiftGrid)
                    % rig_draw.interface.xden
          /\ rig_draw.interface.sites[NSlab + j][3]
                = (rig_draw.random_slab.sites[j][3]
                     + (rig_draw.shift[2] * rig_draw.interface.yden) \div ShiftGrid)
                    % rig_draw.interface.yden
          /\ rig_draw.interface.sites[NSlab + j][4]
                = (random_frac_coords(rig_draw.slab, rig_draw.random_slab,
                                      rig_draw.interfacial_distance)[j]
                     + rig_draw.centring[3]) % rig_draw.interface.zden

\* C18 as stated: in the stacked interface the lowest film site is exactly
\* interfacial_distance above the highest substrate site along c, the
\* distance is within its range and the shift is in-plane, of the film only
C18_LowestFilmAboveHighestSubstrate ==
    Stacked =>
        /\ MinOf(FilmZ) - MaxOfSet(SubstrateZ) = DistanceInZ
        /\ DrawnAndShifted

\* C18 amended: the film site that was lowest in the random slab is exactly
\* interfacial_distance above the substrate site that was highest in the
\* slab, along c and modulo the c length of the cell (sites that fall outside
\* the cell are wrapped into it); the distance is within its range and the
\* shift is in-plane, of the film only
C18_BottomFilmSiteAboveTopSubstrateSite ==
    Stacked =>
        /\ \A k \in 1..NSlab, j \in 1..Len(rig_draw.random_slab.sites) :
              ( /\ rig_draw.slab.sites[k][4] = MaxZ(rig_draw.slab.sites)
                /\ rig_draw.random_slab.sites[j][4]
                      = MinZ(rig_draw.random_slab.sites) )
              => (rig_draw.interface.sites[NSlab + j][4]
                      - rig_draw.interface.sites[k][4]) % rig_draw.interface.zden
                   = DistanceInZ % rig_draw.interface.zden
        /\ DrawnAndShifted

\* an interface in which a substrate site was wrapped to above the film
C18_Witness ==
    /\ Stacked
    /\ \E z \in SubstrateZ : z > MinOf(FilmZ)
    /\ rig_draw.shift # <<0, 0>>

\* the thickness of a structure, in Angstrom, in its own cell
Thickness(struc) == MaxZ(struc.sites) - MinZ(struc.sites)

\* C19: the c length of the stacked cell is substrate thickness + film
\* thickness + interfacial distance + vacuum, each thickness measured in the
\* cell of its own slab, so that the empty region is the vacuum
C19_CLengthIsSumOfThicknesses ==
    Stacked =>
        rig_draw.interface.c_len_num
            = ( Thickness(rig_draw.slab) + Thickness(rig_draw.random_slab)
                + rig_draw.interfacial_distance + rig_self.vacuum )
              * rig_draw.interface.c_len_den

\* C20: with center true the middle of the interface is at z = 0.5; with
\* center false no translation along c is applied, the substrate sites have
\* the z they were stacked with
C20_CentringIsOptional ==
    Stacked =>
        /\ rig_self.center =>
              \A k \in 1..NSlab :
                 rig_draw.slab.sites[k][4] = MaxZ(rig_draw.slab.sites)
                 => 2 * rig_draw.interface.sites[k][4] + DistanceInZ
                       = rig_draw.interface.zden
        /\ ~rig_self.center =>
              \A k \in 1..NSlab :
                 rig_draw.interface.sites[k][4]
                    = slab_frac_coords(rig_draw.slab, rig_draw.random_slab)[k]
                        % rig_draw.interface.zden

(***************************************************************************)
(* Claims about _check_oriented_cell                                       *)
(***************************************************************************)
\* C21: _check_oriented_cell keeps the oriented cell right-handed: when the
\* scale factor has a positive determinant on entry it has one on return,
\* also in the branch that turns the third vector around.
C21_OrientedCellStaysRightHanded ==
    [][ (gs_pc = "constructed" /\ gs_pc' = "checked"
            /\ RightHanded(gs_sg.slab_scale_factor))
        => RightHanded(gs_sg'.slab_scale_factor) ]_vars

\* the generator has been through _check_oriented_cell
Checked == gs_pc \in {"checked", "loop", "returned"}

\* C22 (state part): after _check_oriented_cell the last row of the scale
\* factor is not the negated Miller direction, and the check applied again
\* returns the generator it is given.
C22_CVectorMatches ==
    Checked =>
       /\ gs_sg.slab_scale_factor[3] # NegatedMillerDirection(gs_self.miller_index)
       /\ _check_oriented_cell(gs_heap, gs_self, gs_sg, gs_self.miller_index).sg
             = gs_sg

\* C22 (step part): a generator whose last row is not the negated Miller
\* direction on entry is returned unchanged.
C22_KeptWhenNotNegated ==
    (gs_pc = "constructed" /\ gs_pc' = "checked"
        /\ gs_sg.slab_scale_factor[3] # NegatedMillerDirection(gs_self.miller_index))
    => gs_sg' = gs_sg

\* C22: after _check_oriented_cell the c-vector is never the negated Miller
\* direction; a generator that did not have it on entry is returned
\* unchanged; and checking twice gives what checking once gives.
C22_CheckOrientedCell ==
    []C22_CVectorMatches /\ [][C22_KeptWhenNotNegated]_vars

\* a generator whose third vector was the negated Miller direction has been
\* through the check, which rebuilt its oriented cell from a copy
C22_Witness ==
    /\ gs_pc = "checked"
    /\ Len(gs_heap) = 2
    /\ gs_sg.slab_scale_factor[3]
          = VNeg(NegatedMillerDirection(gs_self.miller_index))
    /\ gs_sg.oriented_unit_cell = gs_heap[2]

(***************************************************************************)
(* Claims about _find_exact_matches                                        *)
(***************************************************************************)
\* the Interfaces of n atoms among those built, in their order: one of the
\* groups handed to _find_exact_matches (611-624)
SizeGroup(n) == SelectSeq(all_int, LAMBDA x : x.interface.natoms = n)

\* two structures have the same sorted coordinates and the same species
SameStructure(x, y) ==
    /\ x.interface.frac_coords = y.interface.frac_coords
    /\ x.interface.species = y.interface.species

\* C23: in a group of Interfaces of one size _find_exact_matches returns
\* pairwise different indices, exactly one for each set of structures with
\* identical coordinates and species, and a structure that differs from every
\* other one of the group in coordinates or in species is retained.
C23_OneIndexPerIdenticalStructures ==
    pc = "generated" =>
       \A n \in {all_int[i].interface.natoms : i \in 1..Len(all_int)} :
          LET strucs == SizeGroup(n)
              inds == _find_exact_matches(strucs)
          IN  /\ \A k, l \in 1..Len(inds) : inds[k] = inds[l] => k = l
              /\ \A i \in 1..Len(strucs) :
                    Cardinality({k \in 1..Len(inds) :
                        SameStructure(strucs[inds[k]], strucs[i])}) = 1
              /\ \A i \in 1..Len(strucs) :
                    (\A j \in (1..Len(strucs)) \ {i} :
                        ~SameStructure(strucs[i], strucs[j]))
                    => \E k \in 1..Len(inds) : inds[k] = i

(***************************************************************************)
(* Claims about the uvw_basis of a Surface                                 *)
(***************************************************************************)
\* the vector whose indices in the basis of the rows of lattice are u
InBasis(u, lattice) ==
    [k \in 1..3 |-> u[1] * lattice[1][k] + u[2] * lattice[2][k]
                     + u[3] * lattice[3][k]]

\* v is w times a positive number
PositiveMultiple(v, w) == Cross(v, w) = <<0, 0, 0>> /\ Dot(v, w) > 0

\* row k of the uvw_basis of surface i has no common factor and, applied to
\* the bulk lattice vectors, points along row k of the slab's lattice
UvwRowTransforms(i, k) ==
    LET u == gs_surfaces[i].uvw_basis[k]
    IN  /\ Gcd(Gcd(Abs(u[1]), Abs(u[2])), Abs(u[3])) = 1
        /\ PositiveMultiple(
               InBasis(u, gs_heap[gs_self.bulk_structure].lattice),
               gs_heap[gs_surfaces[i].slab.lattice][k])

\* C24: the uvw_basis of every Surface is the integer transformation from
\* the bulk basis to the slab basis: each row is an integer triple without
\* common factor that, applied to the bulk lattice vectors, gives a positive
\* multiple of the slab's lattice vector, whatever the bulk lattice is.
C24_UvwBasisTransformsBulkToSlab ==
    \A i \in 1..Len(gs_surfaces) : \A k \in 1..3 : UvwRowTransforms(i, k)

\* C24 for the cubic bulk cells alone
C24_UvwBasisOfCubicBulk ==
    gs_heap[gs_self.bulk_structure].lattice = Cubic
    => \A i \in 1..Len(gs_surfaces) : \A k \in 1..3 : UvwRowTransforms(i, k)

(***************************************************************************)
(* Claims about the retry loops of RandomInterfaceGenerator                *)
(***************************************************************************)
\* a call of generate_interface has ended
GenerateInterfaceEnded == rig_out # NoAttributes /\ "loops" \in DOMAIN rig_draw

\* C25: every call of generate_interface ends, and each retry loop that it
\* entered (the validity loop, the selection of space group and composition,
\* the attempts at a random structure) ended by success or by its timeout.
C25_LoopsEndBySuccessOrTimeout ==
    GenerateInterfaceEnded =>
        \A l \in DOMAIN rig_draw.loops :
            rig_draw.loops[l] \in {"not_entered", "success", "timeout"}

\* C26: a call of _generate_random_structure returns a pair of a structure
\* and a flag, and the flag is true exactly when the smallest distance
\* between two atoms of the structure is between 2.0 and 3.0 Angstrom.
C26_RandomStructureReturnsPair ==
    (GenerateInterfaceEnded /\ "_generate_random_structure" \in DOMAIN rig_draw)
    => /\ "returned" \in DOMAIN rig_draw._generate_random_structure
       /\ rig_draw._generate_random_structure.returned[2]
             = ( /\ rig_draw._generate_random_structure.struc_min_d >= 200
                 /\ rig_draw._generate_random_structure.struc_min_d <= 300 )

(***************************************************************************)
(* Claims about the attributes of an IonicSurfaceMatcher                   *)
(***************************************************************************)
\* the atomic numbers that occur in the substrate or in the film
InterfaceNumbers ==
    atomic_numbers(ism_interface.substrate.bulk_structure)
        \cup atomic_numbers(ism_interface.film.bulk_structure)

\* C27 (state part): z_PES_data is None until the first call of
\* run_surface_matching, is set once a call was made, the z-shifted energies
\* were computed by the first call and by no other, and the energies a call
\* uses are the stored ones.
C27_ZDataSetByFirstCall ==
    /\ ism_pc = "constructed" => ism_self.z_PES_data = None
    /\ ism_pc = "matched" =>
          /\ ism_self.z_PES_data # None
          /\ ism_local.z_computed <=> ism_local.calls = 1
          /\ ism_self.z_PES_data.value
                = <<ism_local.z_interface_coulomb_energy,
                    ism_local.z_interface_born_energy>>

\* C27 (step part): no step changes or clears a z_PES_data that is set.
C27_ZDataKept ==
    ism_self.z_PES_data # None => ism_self'.z_PES_data = ism_self.z_PES_data

\* C27: over any sequence of calls of run_surface_matching on one matcher
\* the z-shifted energies are computed on the first call only: z_PES_data is
\* None before it, set by it, and kept unchanged by every later call, which
\* uses the stored values.
C27_ZEnergiesComputedOnce ==
    []C27_ZDataSetByFirstCall /\ [][ism_pc # "start" => C27_ZDataKept]_vars

\* a second call was made, which computed no z-shifted energies and whose
\* energies without z shift differ from those stored
C27_Witness ==
    /\ ism_pc = "matched"
    /\ ism_local.calls = 2
    /\ ~ism_local.z_computed
    /\ ism_local.coulomb_adh_energy # 0
    /\ ism_local.born_adh_energy # 0

\* C28: the r0 table of a constructed matcher has, for every ordered pair of
\* atomic numbers of the substrate or the film and every pair of sides, an
\* entry that is a number; the entries of (a, b) and of (b, a) are equal, and
\* so are the entries of the sides (0, 1) and (1, 0).
C28_R0TableTotalAndSymmetric ==
    ism_pc # "start" =>
        \A a \in InterfaceNumbers, b \in InterfaceNumbers, i \in {0, 1}, j \in {0, 1} :
            /\ <<i, j, a, b>> \in DOMAIN ism_self.r0_dict
            /\ ism_self.r0_dict[<<i, j, a, b>>] # None
            /\ ism_self.r0_dict[<<i, j, a, b>>] = ism_self.r0_dict[<<i, j, b, a>>]
            /\ ism_self.r0_dict[<<0, 1, a, b>>] = ism_self.r0_dict[<<1, 0, a, b>>]

\* a matcher whose table has a distance found in the substrate alone, which
\* is not the sum of the ionic radii, and an entry for a pair of one species
\* of the substrate and one of the film
C28_Witness ==
    /\ ism_pc = "constructed"
    /\ \E a \in InterfaceNumbers, b \in InterfaceNumbers :
          /\ a > b
          /\ ism_self.r0_dict[<<0, 0, a, b>>] # ism_self.r0_dict[<<1, 1, a, b>>]
          /\ ism_self.r0_dict[<<0, 0, a, b>>] # Some(IonicRadius[a] + IonicRadius[b])
    /\ \E a \in atomic_numbers(ism_interface.substrate.bulk_structure),
          b \in atomic_numbers(ism_interface.film.bulk_structure) :
          /\ a \notin atomic_numbers(ism_interface.film.bulk_structure)
          /\ b \notin atomic_numbers(ism_interface.substrate.bulk_structure)
          /\ ism_self.r0_dict[<<0, 1, a, b>>] = Some(IonicRadius[a] + IonicRadius[b])

\* C29: in a constructed matcher film_part is the film structure of the
\* interface and sub_part is its substrate structure.
C29_PartsAreFilmAndSubstrate ==
    ism_pc = "constructed" =>
        /\ ism_self.film_part = ism_interface.film_atoms
        /\ ism_self.sub_part = ism_interface.substrate_atoms

====
